---------------------------- MODULE Spec2Model ----------------------------
(***************************************************************************)
(* Model of the literature-review backend's retrieval core:                *)
(*   - the interaction-driven graph learner and the graph keyword          *)
(*     expansion (app/services/recall_enhancement.py),                     *)
(*   - the similarity scorer and the graph recall enhancer                 *)
(*     (app/services/semantic_search.py),                                  *)
(*   - the impact-tag pass of the citation network labeller                *)
(*     (app/services/citation_analysis.py).                                *)
(*                                                                         *)
(* Conventions.                                                            *)
(*   Text is a sequence of one-character strings, so that strip() and      *)
(*   lower() are computed and not assumed.                                 *)
(*   TagGroupTag weights are kept in tenths (1.0 is 10, the cap 10.0 is    *)
(*   100): every weight the learner writes is a multiple of 0.1.  Float    *)
(*   rounding is not modelled.                                             *)
(*   Row ids are positions in the table's sequence; a query without        *)
(*   ORDER BY returns rows in id order.                                    *)
(***************************************************************************)
EXTENDS Integers, Sequences, FiniteSets, TLC

VARIABLES
    tags,        \* table tags: Seq of [key, name, category]; id = position
    edges,       \* table tag_group_tags: Seq of [gid, tid, w]; id = position
    logs,        \* table recall_logs: Seq of [event_type, query_keywords, group_keys]
    learn,       \* outcome of the last analyze_logs_and_update_graph call
    expanded,    \* outcome of the last expand_keywords_using_graph call
    papers,      \* table papers: Seq of [year, embedding, citations_count]; id = position
    paper_tags,  \* table paper_tags: Seq of [paper_id, tag_id, weight]; id = position
    labelled,    \* outcome of the last labelling pass
    citations,   \* table paper_citations: set of <<citing_paper_id, cited_paper_id>>
    searched,    \* outcome of the last search call
    matched,     \* outcome of the last SemanticGroupService.expand_keywords call
    job,         \* the row of table crawl_jobs
    crawled,     \* outcome of the last call of the crawl service
    step,        \* the run_crawl_job_once call in progress: the row its session loaded
    sessions     \* the learner runs in progress: what each session has read

labelVars == <<papers, paper_tags, labelled>>

searchVars == <<citations, searched>>

matchVars == <<matched>>

crawlVars == <<job, crawled, step>>

learnVars == <<sessions>>

vars == <<tags, edges, logs, learn, expanded, papers, paper_tags, labelled,
          citations, searched, matched, job, crawled, step, sessions>>

None == "None"

(***************************************************************************)
(* Generic helpers                                                         *)
(***************************************************************************)
Min(a, b) == IF a <= b THEN a ELSE b

Max(a, b) == IF a >= b THEN a ELSE b

Range(s) == {s[i] : i \in DOMAIN s}

RECURSIVE SumOver(_, _)
\* sum of f[x] over a finite set S
SumOver(f, S) ==
    IF S = {} THEN 0
    ELSE LET x == CHOOSE y \in S : TRUE IN f[x] + SumOver(f, S \ {x})

Take(s, n) == IF n >= Len(s) THEN s ELSE SubSeq(s, 1, n)

\* Python's s[:n]: a negative n drops the last -n items
PySlice(s, n) ==
    IF n >= 0 THEN Take(s, n)
    ELSE IF Len(s) + n <= 0 THEN <<>> ELSE SubSeq(s, 1, Len(s) + n)

\* list.sort(key=score, reverse=True) under the order Gt on scores:
\* descending and stable, each item placed after the items that are larger
\* or are equal and come earlier
SortedDescWith(items, score, Gt(_, _)) ==
    LET n == Len(items)
        Before(i) == {j \in 1..n :
                        \/ Gt(score[j], score[i])
                        \/ score[j] = score[i] /\ j < i}
    IN [k \in 1..n |->
          items[CHOOSE i \in 1..n : Cardinality(Before(i)) = k - 1]]

\* sorted(items, key=score, reverse=True) for integer scores of the items
SortedDesc(items, score) ==
    SortedDescWith(items, [i \in DOMAIN items |-> score[items[i]]],
                   LAMBDA a, b : a > b)

(***************************************************************************)
(* Exact fractions <<numerator, denominator>> in lowest terms, denominator *)
(* positive: the float scores of the scorer and of the enhancer            *)
(***************************************************************************)
Abs(a) == IF a < 0 THEN -a ELSE a

RECURSIVE Gcd(_, _)
Gcd(a, b) == IF b = 0 THEN a ELSE Gcd(b, a % b)

Frac(n, d) ==
    LET g == Gcd(Abs(n), Abs(d))
        sgn == IF d < 0 THEN -1 ELSE 1
    IN <<sgn * (n \div g), sgn * (d \div g)>>

FZero == <<0, 1>>

FAdd(x, y) == Frac(x[1] * y[2] + y[1] * x[2], x[2] * y[2])

FMul(x, y) == Frac(x[1] * y[1], x[2] * y[2])

FDiv(x, y) == Frac(x[1] * y[2], x[2] * y[1])

FGt(x, y) == x[1] * y[2] > y[1] * x[2]

RECURSIVE FSum(_)
\* the sum of a sequence of fractions
FSum(s) == IF s = <<>> THEN FZero ELSE FAdd(Head(s), FSum(Tail(s)))

\* max(values) of a non-empty set of fractions
FMax(S) == CHOOSE x \in S : \A y \in S : ~FGt(y, x)

(***************************************************************************)
(* str.lower() and str.strip() on sequences of characters                  *)
(***************************************************************************)
LowerChar(c) ==
    CASE c = "A" -> "a"
      [] c = "B" -> "b"
      [] OTHER   -> c

Lower(s) == [i \in DOMAIN s |-> LowerChar(s[i])]

IsSpace(c) == c = " "

RECURSIVE LStrip(_)
LStrip(s) == IF s # <<>> /\ IsSpace(Head(s)) THEN LStrip(Tail(s)) ELSE s

RECURSIVE RStrip(_)
RStrip(s) ==
    IF s # <<>> /\ IsSpace(s[Len(s)]) THEN RStrip(SubSeq(s, 1, Len(s) - 1)) ELSE s

Strip(s) == RStrip(LStrip(s))

\* tag_key = keyword.strip().lower()
NormalizeKey(keyword) == Lower(Strip(keyword))

(***************************************************************************)
(* Vocabulary and bounds of the tag-graph model                            *)
(***************************************************************************)
wAb    == <<"A", "b">>
wab    == <<"a", "b">>
wA_b   == <<"A", " ", "b">>
wa_b   == <<"a", "_", "b">>
wB     == <<"B">>
wb     == <<"b">>

\* table tag_groups: key of the group with id i (the learner never writes it)
GroupKeys == <<"g1", "g2">>

GroupIds == DOMAIN GroupKeys

\* tags present before any learning: one written the way
\* sync_static_groups_to_db writes them (key = name.strip().lower()) and the
\* two of test_recall_enhancement.py (key "urban_a" for the name "Urban A")
InitialTags ==
    << [key |-> wab,  name |-> wAb,  category |-> "keyword"],
       [key |-> wa_b, name |-> wA_b, category |-> "keyword"],
       [key |-> wb,   name |-> wB,   category |-> "keyword"] >>

\* (group id, tag id) pairs that may be linked initially, and for each the
\* weights (in tenths) the link may start with; Absent is "no such link"
\* (test_recall_enhancement.py links "Urban A" with weight 0.1 and "Urban B"
\* with weight 2.0)
InitialPairs == << <<1, 1>>, <<1, 2>>, <<1, 3>> >>

Absent == -1

InitialWeights == << {Absent, 0, 10, 96}, {1}, {20} >>

\* the interaction rows that may be logged
Row(event_type, query_keywords, group_keys) ==
    [event_type |-> event_type, query_keywords |-> query_keywords,
     group_keys |-> group_keys]

LogRows ==
    { Row("click",  <<wAb>>,      <<"g1">>),
      Row("accept", <<wAb>>,      <<"g1">>),
      Row("click",  <<wA_b>>,     <<"g1">>),
      Row("accept", <<wA_b>>,     <<"gX", "g2">>),
      Row("click",  <<wAb, wab>>, <<"g1", "g2">>),
      Row("query",  <<wAb>>,      <<"g1">>),
      Row("click",  <<>>,         <<"g1">>),
      Row("click",  <<wAb>>,      <<>>) }

\* the calls expand_keywords_using_graph(keywords, limit) that are made
ExpandCalls ==
    { <<<<wAb>>, 10>>, <<<<wA_b>>, 10>>, <<<<wB>>, 1>>, <<<<>>, 10>> }

MaxLogs == 2

MaxRuns == 2

WeightCap == 100

(***************************************************************************)
(* analyze_logs_and_update_graph                                           *)
(***************************************************************************)
\* increment = 0.1 if event_type == "click" else 0.5
Increment(event_type) == IF event_type = "click" THEN 1 ELSE 5

\* db.query(TagGroup).filter(TagGroup.key == group_key).first(); 0 is None
FindGroup(group_key) ==
    IF \E g \in GroupIds : GroupKeys[g] = group_key
    THEN CHOOSE g \in GroupIds :
            /\ GroupKeys[g] = group_key
            /\ \A h \in GroupIds : GroupKeys[h] = group_key => g <= h
    ELSE 0

\* db.query(Tag).filter(Tag.key == tag_key).first(); 0 is None
FindTag(tagTable, tag_key) ==
    IF \E t \in DOMAIN tagTable : tagTable[t].key = tag_key
    THEN CHOOSE t \in DOMAIN tagTable :
            /\ tagTable[t].key = tag_key
            /\ \A u \in DOMAIN tagTable : tagTable[u].key = tag_key => t <= u
    ELSE 0

\* db.query(TagGroupTag).filter(group_id == gid, tag_id == tid).first();
\* 0 is None.  The session has autoflush off, so only flushed rows are seen.
FindLink(edgeTable, gid, tid) ==
    IF \E e \in DOMAIN edgeTable : edgeTable[e].gid = gid /\ edgeTable[e].tid = tid
    THEN CHOOSE e \in DOMAIN edgeTable :
            /\ edgeTable[e].gid = gid /\ edgeTable[e].tid = tid
            /\ \A f \in DOMAIN edgeTable :
                 (edgeTable[f].gid = gid /\ edgeTable[f].tid = tid) => e <= f
    ELSE 0

\* UniqueConstraint("group_id", "tag_id")
UniqueLinks(edgeTable) ==
    \A e, f \in DOMAIN edgeTable :
        (edgeTable[e].gid = edgeTable[f].gid /\ edgeTable[e].tid = edgeTable[f].tid)
            => e = f

\* db.flush(): INSERT the pending links; a duplicate (group_id, tag_id)
\* raises IntegrityError
Flush(s) ==
    IF s.failed THEN s
    ELSE IF UniqueLinks(s.edges \o s.pending)
    THEN [s EXCEPT !.edges = s.edges \o s.pending, !.pending = <<>>]
    ELSE [s EXCEPT !.failed = TRUE]

\* BumpedWeight without the cap of lines 178-179
BumpedWeightUncapped(w, inc) == w + inc

\* the capped weight of an existing link after one increment
BumpedWeight(w, inc) ==
    IF w + inc > WeightCap THEN WeightCap ELSE w + inc

\* the body of "for keyword in q_keywords"
LinkKeyword(s, gid, keyword, inc) ==
    IF s.failed THEN s
    ELSE
      LET tag_key == NormalizeKey(keyword)
          found   == FindTag(s.tags, tag_key)
          s1 == IF found # 0 THEN s
                ELSE Flush([s EXCEPT !.tags = Append(@,
                         [key |-> tag_key, name |-> keyword, category |-> "user_query"])])
          tid  == IF found # 0 THEN found ELSE Len(s1.tags)
          link == FindLink(s1.edges, gid, tid)
      IN IF s1.failed THEN s1
         ELSE IF link # 0
         THEN [s1 EXCEPT !.edges[link].w = BumpedWeight(@, inc),
                         !.count = @ + 1]
         ELSE [s1 EXCEPT !.pending = Append(@, [gid |-> gid, tid |-> tid, w |-> 10 + inc]),
                         !.count = @ + 1]

RECURSIVE LinkKeywords(_, _, _, _)
LinkKeywords(s, gid, keywords, inc) ==
    IF keywords = <<>> THEN s
    ELSE LinkKeywords(LinkKeyword(s, gid, Head(keywords), inc), gid, Tail(keywords), inc)

RECURSIVE LinkGroups(_, _, _, _)
\* "for group_key in g_keys": a key that names no group is skipped
LinkGroups(s, group_keys, keywords, inc) ==
    IF group_keys = <<>> THEN s
    ELSE LET gid == FindGroup(Head(group_keys))
             s1  == IF gid = 0 THEN s ELSE LinkKeywords(s, gid, keywords, inc)
         IN LinkGroups(s1, Tail(group_keys), keywords, inc)

RECURSIVE ProcessLogs(_, _)
\* "for log in logs": rows without keywords or without group keys are skipped
ProcessLogs(s, rows) ==
    IF rows = <<>> THEN s
    ELSE LET log == Head(rows)
             s1  == IF log.query_keywords = <<>> \/ log.group_keys = <<>> THEN s
                    ELSE LinkGroups(s, log.group_keys, log.query_keywords,
                                    Increment(log.event_type))
         IN ProcessLogs(s1, Tail(rows))

\* the rows of the window whatever their event_type
SelectedLogsAnyType(from) == SubSeq(logs, from, Len(logs))

\* the rows the query of the run returns: created_at >= cutoff_time selects a
\* suffix of the table (created_at grows with the id), event_type IN
\* ("click", "accept") filters it
SelectedLogs(from) ==
    SelectSeq(SubSeq(logs, from, Len(logs)),
              LAMBDA r : r.event_type \in {"click", "accept"})

\* the session at the final db.commit(): the loop, then the flush of commit
RunLearner(rows) ==
    Flush(ProcessLogs([tags |-> tags, edges |-> edges, pending |-> <<>>,
                       failed |-> FALSE, count |-> 0], rows))

(***************************************************************************)
(* expand_keywords_using_graph                                             *)
(***************************************************************************)
RECURSIVE DistinctInOrder(_)
\* the keys of a dict in insertion order: first occurrences, in order
DistinctInOrder(s) ==
    IF s = <<>> THEN <<>>
    ELSE LET init == DistinctInOrder(SubSeq(s, 1, Len(s) - 1))
             x    == s[Len(s)]
         IN IF x \in Range(init) THEN init ELSE Append(init, x)

\* float(getattr(rel, "weight") or 1.0): a weight of 0 reads as 1.0
ReadWeight(w) == IF w = 0 THEN 10 ELSE w

\* normalized_keys = [k.strip().lower() for k in keywords if k.strip()]
NormalizedKeys(keywords) ==
    LET kept == SelectSeq(keywords, LAMBDA k : Strip(k) # <<>>)
    IN [i \in DOMAIN kept |-> NormalizeKey(kept[i])]

\* ids of db.query(Tag).filter(Tag.key.in_(normalized_keys)).all()
InitialTagIds(tagTable, keywords) ==
    {t \in DOMAIN tagTable : tagTable[t].key \in Range(NormalizedKeys(keywords))}

\* group_scores: for each group, the sum of the weights of its links to the
\* initial tags (tenths)
GroupScore(edgeTable, initial, gid) ==
    LET rel == {e \in DOMAIN edgeTable :
                  edgeTable[e].gid = gid /\ edgeTable[e].tid \in initial}
    IN SumOver([e \in rel |-> ReadWeight(edgeTable[e].w)], rel)

\* the keys of group_scores in insertion order
ScoredGroups(edgeTable, initial) ==
    LET rel == SelectSeq(edgeTable, LAMBDA r : r.tid \in initial)
    IN DistinctInOrder([i \in DOMAIN rel |-> rel[i].gid])

\* top_group_ids: sorted(group_scores.items(), by score, reverse)[:5]
TopGroupIds(edgeTable, initial) ==
    LET gs == [g \in GroupIds |-> GroupScore(edgeTable, initial, g)]
    IN Take(SortedDesc(ScoredGroups(edgeTable, initial), gs), 5)

\* tag_scores[tid]: sum over the links of tid into the top groups of
\* group_score * weight * 0.5 (thousandths)
TagScore(edgeTable, initial, top, tid) ==
    LET rel == {e \in DOMAIN edgeTable :
                  edgeTable[e].tid = tid /\ edgeTable[e].gid \in Range(top)}
    IN SumOver([e \in rel |->
                  GroupScore(edgeTable, initial, edgeTable[e].gid)
                    * ReadWeight(edgeTable[e].w) * 5], rel)

\* the keys of tag_scores in insertion order, the initial tags deleted
ScoredTags(edgeTable, initial, top) ==
    LET rel == SelectSeq(edgeTable, LAMBDA r : r.gid \in Range(top))
    IN SelectSeq(DistinctInOrder([i \in DOMAIN rel |-> rel[i].tid]),
                 LAMBDA t : t \notin initial)

\* top_tag_ids: the ids of the scored tags, best first, cut to limit
TopTagIds(tagTable, edgeTable, keywords, limit) ==
    LET initial == InitialTagIds(tagTable, keywords)
        top     == TopGroupIds(edgeTable, initial)
        ts      == [t \in DOMAIN tagTable |-> TagScore(edgeTable, initial, top, t)]
    IN Range(PySlice(SortedDesc(ScoredTags(edgeTable, initial, top), ts), limit))

\* the whole function: the mapping name -> score (thousandths)
ExpandKeywordsUsingGraph(tagTable, edgeTable, keywords, limit) ==
    LET initial == InitialTagIds(tagTable, keywords)
        top     == TopGroupIds(edgeTable, initial)
        top_tag_ids == TopTagIds(tagTable, edgeTable, keywords, limit)
        names   == {tagTable[t].name : t \in top_tag_ids}
        \* result_tags come back in id order: the last tag of a name wins
        LastOf(n) == CHOOSE t \in top_tag_ids :
                        /\ tagTable[t].name = n
                        /\ \A u \in top_tag_ids : tagTable[u].name = n => u <= t
    IN [n \in names |-> TagScore(edgeTable, initial, top, LastOf(n))]

(***************************************************************************)
(* The tag-graph specification: interactions are logged, the learner runs  *)
(* over a window of the log, keywords are expanded                         *)
(***************************************************************************)
\* what a Python call hands back: None, or an integer
PyNone == [none |-> TRUE, int |-> 0]

PyInt(n) == [none |-> FALSE, int |-> n]

NoLearn == [runs |-> 0, from |-> 0, before |-> <<>>, tagsBefore |-> <<>>,
            rows |-> <<>>, raised |-> FALSE, updates |-> 0, returned |-> PyNone]

NoSearch == [called |-> FALSE, calls |-> 0]

NoMatch == [called |-> FALSE]

\* CrawlJob.log: NULL, or {"entries": [...]}
Log(entries) == [null |-> FALSE, entries |-> entries]

\* no row in crawl_jobs
NoJob == [status |-> None, max_results |-> 0, page_size |-> 0, current_page |-> 0,
          fetched_count |-> 0, failed_count |-> 0, log |-> [null |-> TRUE, entries |-> <<>>]]

\* the try block of run_crawl_job_once was not entered
NoFetch == [kind |-> None, e |-> "", new |-> 0]

\* no run_crawl_job_once call is in progress
NoStep == [active |-> FALSE, row |-> NoJob]

\* the sessions that may run the learner at the same time
Sessions == {1, 2}

\* a session that is not running the learner
NoSession == [active |-> FALSE, from |-> 0, rows |-> <<>>, edges |-> <<>>]

NoSessions == [s \in Sessions |-> NoSession]

NoCrawl == [op |-> None, calls |-> 0, raised |-> FALSE, error |-> "", new_count |-> 0,
            fetch |-> NoFetch, before |-> NoJob]

SearchDebugInfo(expanded_keywords, activated_groups, total_candidates) ==
    [expanded_keywords |-> expanded_keywords, activated_groups |-> activated_groups,
     total_candidates |-> total_candidates]

NoPass == [pass |-> None, count |-> 0, ranked |-> <<>>]

NoExpand == [called |-> FALSE, keywords |-> <<>>, limit |-> 0, result |-> <<>>]

\* the links chosen by a choice function over InitialPairs, in pair order
InitialEdges(choice) ==
    LET all == [i \in DOMAIN InitialPairs |->
                  [gid |-> InitialPairs[i][1], tid |-> InitialPairs[i][2],
                   w |-> choice[i]]]
    IN SelectSeq(all, LAMBDA r : r.w # Absent)

GraphInit ==
    /\ tags = InitialTags
    /\ \E choice \in [DOMAIN InitialPairs -> {Absent} \cup (0..WeightCap)] :
         /\ \A i \in DOMAIN InitialPairs : choice[i] \in InitialWeights[i]
         /\ edges = InitialEdges(choice)
    /\ logs = <<>>
    /\ learn = NoLearn
    /\ expanded = NoExpand
    /\ papers = <<>>
    /\ paper_tags = <<>>
    /\ labelled = NoPass
    /\ citations = {}
    /\ searched = NoSearch
    /\ matched = NoMatch
    /\ job = NoJob
    /\ crawled = NoCrawl
    /\ step = NoStep
    /\ sessions = NoSessions

\* create_recall_interaction / the click and accept logging of the review
\* flow: one row is appended to recall_logs
LogInteraction(row) ==
    /\ Len(logs) < MaxLogs
    /\ logs' = Append(logs, row)
    /\ expanded' = NoExpand
    /\ UNCHANGED <<tags, edges, learn, labelVars, searchVars, matchVars, crawlVars, learnVars>>

\* analyze_logs_and_update_graph(time_window_minutes): from is the id of the
\* first row inside the window
AnalyzeLogsAndUpdateGraph(from) ==
    /\ learn.runs < MaxRuns
    /\ from <= Len(logs) + 1
    /\ LET rows == SelectedLogs(from)
           s    == RunLearner(rows)
           done == [runs |-> learn.runs + 1, from |-> from, before |-> edges,
                    tagsBefore |-> tags, rows |-> rows,
                    raised |-> FALSE, updates |-> 0, returned |-> PyNone]
       IN IF rows = <<>>
          THEN \* "if not logs: return"
               /\ learn' = done
               /\ UNCHANGED <<tags, edges>>
          ELSE IF s.failed
          THEN \* IntegrityError leaves the function; nothing is committed
               /\ learn' = [done EXCEPT !.raised = TRUE]
               /\ UNCHANGED <<tags, edges>>
          ELSE \* updates_count goes to the logger; the function ends
               \* without a return statement
               /\ learn' = [done EXCEPT !.updates = s.count]
               /\ tags' = s.tags
               /\ edges' = s.edges
    /\ expanded' = NoExpand
    /\ UNCHANGED <<logs, labelVars, searchVars, matchVars, crawlVars, learnVars>>

\* expand_keywords_using_graph(keywords, limit), which reads the graph and
\* writes nothing; expanded holds the call made on the present graph
ExpandKeywords(keywords, limit) ==
    /\ ~expanded.called
    /\ expanded' = [called |-> TRUE, keywords |-> keywords, limit |-> limit,
                    result |-> IF keywords = <<>> THEN <<>>
                               ELSE ExpandKeywordsUsingGraph(tags, edges, keywords, limit)]
    /\ UNCHANGED <<tags, edges, logs, learn, labelVars, searchVars, matchVars, crawlVars, learnVars>>

GraphNext ==
    \/ \E row \in LogRows : LogInteraction(row)
    \/ \E from \in 1..(MaxLogs + 1) : AnalyzeLogsAndUpdateGraph(from)
    \/ \E c \in ExpandCalls : ExpandKeywords(c[1], c[2])

SpecGraph == GraphInit /\ [][GraphNext]_vars

(***************************************************************************)
(* The learner with runs in parallel: each run has its own session, reads  *)
(* the rows of its window and the links, and writes at its db.commit()     *)
(***************************************************************************)
\* the interactions logged while runs are in parallel: clicks and accepts
\* for one (group, keyword) pair whose tag exists
ParallelRows ==
    { Row("click", <<wAb>>, <<"g1">>), Row("accept", <<wAb>>, <<"g1">>) }

\* the session of run s at its db.commit(): the loop over the rows it
\* selected, on the links as it read them
SessionAtCommit(s) ==
    Flush(ProcessLogs([tags |-> tags, edges |-> sessions[s].edges, pending |-> <<>>,
                       failed |-> FALSE, count |-> 0], sessions[s].rows))

\* the table after the UPDATEs of a commit: a link whose weight the session
\* changed gets the session's weight, the other links stay as committed
UpdatedLinks(read, written) ==
    [e \in DOMAIN edges |->
        IF e \in DOMAIN read /\ written[e].w # read[e].w THEN written[e] ELSE edges[e]]

\* analyze_logs_and_update_graph up to the reads: the query of the window
\* and the lookups of the links
BeginLearner(s, from) ==
    /\ ~sessions[s].active
    /\ learn.runs + Cardinality({t \in Sessions : sessions[t].active}) < MaxRuns
    /\ from <= Len(logs) + 1
    /\ IF SelectedLogs(from) = <<>>
       THEN \* "if not logs: return"
            /\ learn' = [runs |-> learn.runs + 1, from |-> from, before |-> edges,
                         tagsBefore |-> tags, rows |-> <<>>,
                         raised |-> FALSE, updates |-> 0, returned |-> PyNone]
            /\ UNCHANGED sessions
       ELSE /\ sessions' = [sessions EXCEPT ![s] =
                              [active |-> TRUE, from |-> from,
                               rows |-> SelectedLogs(from), edges |-> edges]]
            /\ UNCHANGED learn
    /\ UNCHANGED <<tags, edges, logs, expanded, labelVars, searchVars, matchVars, crawlVars>>

\* the db.commit() of run s: the UPDATEs of the links it changed and the
\* INSERTs of the links it added; a link another run inserted meanwhile
\* makes the INSERT fail on the unique constraint
CommitLearner(s) ==
    /\ sessions[s].active
    /\ LET read == sessions[s].edges
           r    == SessionAtCommit(s)
           new  == SubSeq(r.edges, Len(read) + 1, Len(r.edges))
           done == [runs |-> learn.runs + 1, from |-> sessions[s].from, before |-> edges,
                    tagsBefore |-> tags, rows |-> sessions[s].rows,
                    raised |-> FALSE, updates |-> 0, returned |-> PyNone]
       IN IF r.failed \/ ~UniqueLinks(edges \o new)
          THEN /\ learn' = [done EXCEPT !.raised = TRUE]
               /\ UNCHANGED edges
          ELSE /\ learn' = [done EXCEPT !.updates = r.count]
               /\ edges' = UpdatedLinks(read, r.edges) \o new
    /\ sessions' = [sessions EXCEPT ![s] = NoSession]
    /\ UNCHANGED <<tags, logs, expanded, labelVars, searchVars, matchVars, crawlVars>>

ParallelLearnNext ==
    \/ \E row \in ParallelRows : LogInteraction(row)
    \/ \E s \in Sessions, from \in 1..(MaxLogs + 1) : BeginLearner(s, from)
    \/ \E s \in Sessions : CommitLearner(s)

SpecParallelLearn == GraphInit /\ [][ParallelLearnNext]_vars

(***************************************************************************)
(* Properties of the learner and of the keyword expansion                  *)
(***************************************************************************)
\* C1: starting from weights in [0, 10.0], after any sequence of learner
\* runs (overlapping windows included) every TagGroupTag weight is at most
\* 10.0, and no link that existed before the last run has a lower weight
\* after it (links are never removed)
C1_WeightCappedAndMonotone ==
    /\ \A e \in DOMAIN edges : edges[e].w >= 0 /\ edges[e].w <= WeightCap
    /\ \A e \in DOMAIN learn.before :
         /\ e \in DOMAIN edges
         /\ edges[e].gid = learn.before[e].gid
         /\ edges[e].tid = learn.before[e].tid
         /\ edges[e].w >= learn.before[e].w

\* a second run, over a window that overlaps the first one, has pushed a
\* link into the cap
C1_Witness ==
    /\ learn.runs = 2
    /\ learn.from = 1
    /\ Len(learn.rows) = 2
    /\ \E e \in DOMAIN learn.before :
         learn.before[e].w < WeightCap /\ edges[e].w = WeightCap

\* the number of times the rows of a run name the pair (group gid, tag tid)
\* in an event of the given type
RECURSIVE PairEvents(_, _, _, _, _)
PairEvents(tagTable, rows, gid, tid, event_type) ==
    IF rows = <<>> THEN 0
    ELSE LET r  == Head(rows)
             gs == {i \in DOMAIN r.group_keys : FindGroup(r.group_keys[i]) = gid}
             ks == {i \in DOMAIN r.query_keywords :
                      FindTag(tagTable, NormalizeKey(r.query_keywords[i])) = tid}
             here == IF r.event_type = event_type
                     THEN Cardinality(gs) * Cardinality(ks) ELSE 0
         IN here + PairEvents(tagTable, Tail(rows), gid, tid, event_type)

\* C5: a link that exists with weight w has, after one run whose window
\* holds n click and m accept events for its pair, the weight
\* min(w + 0.1*n + 0.5*m, 10.0)
C5_ExistingLinkGainsIncrements ==
    learn.runs > 0 =>
      \A e \in DOMAIN learn.before :
        edges[e].w =
          Min(learn.before[e].w
                + PairEvents(learn.tagsBefore, learn.rows,
                             learn.before[e].gid, learn.before[e].tid, "click")
                + 5 * PairEvents(learn.tagsBefore, learn.rows,
                                 learn.before[e].gid, learn.before[e].tid, "accept"),
              WeightCap)

\* C2: expand_keywords_using_graph([X]) has no key equal to X
C2_InputNotReturned ==
    (expanded.called /\ Len(expanded.keywords) = 1)
        => expanded.keywords[1] \notin DOMAIN expanded.result

(***************************************************************************)
(* Citation network labeller: the impact-tag pass                          *)
(***************************************************************************)
\* the corpora the labeller starts on: papers 1..n with citations_count
\* 1..n for n in UniformSizes, or a small corpus that is edited below
UniformSizes == {20, 100}

MaxPapers == 3

MaxCitations == 2

\* Paper.embedding is a JSON column: SQL NULL when never set, JSON null when
\* set to None (citation_ingest.py, paper_ingest.py), else a list of floats
SqlNull == [kind |-> "sql_null", vec |-> <<>>]

JsonNull == [kind |-> "json_null", vec |-> <<>>]

Vec(v) == [kind |-> "list", vec |-> v]

\* a NULL year, and an absent year bound
NoYear == 0

Paper(year, embedding, citations_count) ==
    [year |-> year, embedding |-> embedding, citations_count |-> citations_count]

\* db.query(Tag).filter(Tag.key == key, Tag.category == category).first()
FindTagInCategory(tagTable, key, category) ==
    IF \E t \in DOMAIN tagTable : tagTable[t].key = key /\ tagTable[t].category = category
    THEN CHOOSE t \in DOMAIN tagTable :
            /\ tagTable[t].key = key /\ tagTable[t].category = category
            /\ \A u \in DOMAIN tagTable :
                 (tagTable[u].key = key /\ tagTable[u].category = category) => t <= u
    ELSE 0

\* _get_or_create_tag: the tag table afterwards
GetOrCreateTag(tagTable, key, category, name) ==
    IF FindTagInCategory(tagTable, key, category) # 0 THEN tagTable
    ELSE Append(tagTable, [key |-> key, name |-> name, category |-> category])

\* the lookup of _link_paper_tag
HasPaperTag(ptTable, paper_id, tag_id) ==
    \E r \in DOMAIN ptTable :
        ptTable[r].paper_id = paper_id /\ ptTable[r].tag_id = tag_id

\* LinkPaperTags without the lookup of _link_paper_tag
LinkPaperTagsUnchecked(ptTable, requests) ==
    ptTable \o SelectSeq(requests, LAMBDA r : r.tag_id # 0)

\* _link_paper_tag over a list of distinct (paper_id, tag_id) requests: a
\* row is added for each request that has none; tag_id 0 is "no request"
LinkPaperTags(ptTable, requests) ==
    ptTable \o SelectSeq(requests,
                 LAMBDA r : r.tag_id # 0 /\ ~HasPaperTag(ptTable, r.paper_id, r.tag_id))

\* percentile = (i / total) * 100 compared with 1, 5 and 20, on integers
ImpactBand(i, total) ==
    IF i * 100 <= total THEN "impact_seminal"
    ELSE IF i * 100 <= 5 * total THEN "impact_high"
    ELSE IF i * 100 <= 20 * total THEN "impact_significant"
    ELSE None

\* weight of the PaperTag row of a band, in tenths
BandWeight(band) ==
    CASE band = "impact_seminal"     -> 10
      [] band = "impact_high"        -> 9
      [] band = "impact_significant" -> 8

\* ids 1..n ascending, or n..1
IdOrder(n, ascending) == [i \in 1..n |-> IF ascending THEN i ELSE n + 1 - i]

\* .filter(citations_count > 0).order_by(citations_count.desc()).all();
\* rows of equal count come in the order of the underlying scan
RankedPapers(paperTable, ascending) ==
    LET cited == SelectSeq(IdOrder(Len(paperTable), ascending),
                           LAMBDA p : paperTable[p].citations_count > 0)
    IN SortedDesc(cited, [p \in DOMAIN paperTable |-> paperTable[p].citations_count])

\* "for i, (pid, citations) in enumerate(papers)": the link requested for
\* each ranked paper, by its band
ImpactRequests(tagTable, ranked) ==
    [k \in 1..Len(ranked) |->
        LET band == ImpactBand(k - 1, Len(ranked))
        IN IF band = None
           THEN [paper_id |-> ranked[k], tag_id |-> 0, weight |-> 0]
           ELSE [paper_id |-> ranked[k],
                 tag_id |-> FindTagInCategory(tagTable, band, "impact"),
                 weight |-> BandWeight(band)]]

\* the three impact tags, looked up or created in the order of the code
WithImpactTags(tagTable) ==
    GetOrCreateTag(
      GetOrCreateTag(
        GetOrCreateTag(tagTable, "impact_seminal", "impact", "Seminal Work"),
        "impact_high", "impact", "High Impact"),
      "impact_significant", "impact", "Significant")

\* the number of ranked papers that fall into a band
BandedCount(ranked) ==
    Cardinality({i \in 0..(Len(ranked) - 1) : ImpactBand(i, Len(ranked)) # None})

\* the items of s in the order of their first occurrence
FirstOccurrences(s) ==
    LET idx == SelectSeq([i \in DOMAIN s |-> i],
                         LAMBDA i : \A j \in 1..(i - 1) : s[j] # s[i])
    IN [k \in DOMAIN idx |-> s[idx[k]]]

\* decade = (year // 10) * 10
Decade(year) == (year \div 10) * 10

\* tag_key = f"gen_{decade}s", for the decades of the model
GenerationKey(decade) ==
    CASE decade = 2010 -> "gen_2010s"
      [] decade = 2020 -> "gen_2020s"

\* tag_name = f"{decade}s"
GenerationName(decade) ==
    CASE decade = 2010 -> "2010s"
      [] decade = 2020 -> "2020s"

RECURSIVE WithGenerationTags(_, _)
\* the generation tags, looked up or created in the order the loop meets
\* their decades
WithGenerationTags(tagTable, decades) ==
    IF decades = <<>> THEN tagTable
    ELSE WithGenerationTags(
           GetOrCreateTag(tagTable, GenerationKey(Head(decades)), "generation",
                          GenerationName(Head(decades))),
           Tail(decades))

\* _assign_generation_tags on the store s = [tags, pts]: every paper with a
\* year is linked to the tag of its decade with the default weight 1.0
GenerationPass(s, paperTable) ==
    LET dated == SelectSeq([i \in DOMAIN paperTable |-> i],
                           LAMBDA p : paperTable[p].year # NoYear)
        tt    == WithGenerationTags(s.tags,
                   FirstOccurrences([i \in DOMAIN dated |->
                                       Decade(paperTable[dated[i]].year)]))
        requests == [i \in DOMAIN dated |->
                       [paper_id |-> dated[i],
                        tag_id |-> FindTagInCategory(tt,
                                     GenerationKey(Decade(paperTable[dated[i]].year)),
                                     "generation"),
                        weight |-> 10]]
    IN [tags |-> tt, pts |-> LinkPaperTags(s.pts, requests), count |-> Len(dated)]

\* _assign_impact_tags on the store s
ImpactPass(s, paperTable, ascending) ==
    LET ranked == RankedPapers(paperTable, ascending)
        tt     == WithImpactTags(s.tags)
    IN IF ranked = <<>> THEN [tags |-> s.tags, pts |-> s.pts, count |-> 0]
       ELSE [tags |-> tt, pts |-> LinkPaperTags(s.pts, ImpactRequests(tt, ranked)),
             count |-> BandedCount(ranked)]

\* "if len(c) >= 5" and "valid_communities[:20]"
MinCommunitySize == 5

MaxClusters == 20

\* the least element of a non-empty set of integers
Least(S) == CHOOSE x \in S : \A y \in S : x <= y

\* the elements of a set of integers, ascending
Ascending(S) ==
    [k \in 1..Cardinality(S) |->
        CHOOSE x \in S : Cardinality({y \in S : y < x}) = k - 1]

RECURSIVE Reach(_, _)
\* the nodes connected to the nodes of S in nx.Graph() (undirected)
Reach(citeSet, S) ==
    LET T == S \cup {c[2] : c \in {e \in citeSet : e[1] \in S}}
               \cup {c[1] : c \in {e \in citeSet : e[2] \in S}}
    IN IF T = S THEN S ELSE Reach(citeSet, T)

\* nx.community.label_propagation_communities(G) on the graphs of the model,
\* each connected component of which is a clique: the semi-synchronous label
\* propagation is a function of the graph and leaves one label on a clique,
\* so the communities are the connected components (by least member)
LabelPropagationCommunities(citeSet) ==
    LET nodes == {c[1] : c \in citeSet} \cup {c[2] : c \in citeSet}
        comps == {Reach(citeSet, {n}) : n \in nodes}
    IN [k \in 1..Cardinality(comps) |->
          CHOOSE c \in comps :
              Cardinality({d \in comps : Least(d) < Least(c)}) = k - 1]

\* tag_key = f"cluster_{cluster_id}", for the clusters of the model
ClusterKey(cluster_id) ==
    CASE cluster_id = 1 -> "cluster_1"
      [] cluster_id = 2 -> "cluster_2"

\* tag_name = f"Cluster {cluster_id}"
ClusterName(cluster_id) ==
    CASE cluster_id = 1 -> "Cluster 1"
      [] cluster_id = 2 -> "Cluster 2"

\* meta["size"] = len(community); tag.meta = meta
WithMetaSize(tagTable, t, size) ==
    [tagTable EXCEPT ![t] = [key |-> @.key, name |-> @.name, category |-> @.category,
                             meta |-> [size |-> size]]]

RECURSIVE ClusterLoop(_, _, _)
\* "for idx, community in enumerate(valid_communities[:20])" from idx on
ClusterLoop(s, valid, idx) ==
    IF idx > Len(valid) THEN s
    ELSE LET tt  == GetOrCreateTag(s.tags, ClusterKey(idx), "citation_cluster",
                                   ClusterName(idx))
             tid == FindTagInCategory(tt, ClusterKey(idx), "citation_cluster")
             members == Ascending(valid[idx])
             requests == [i \in DOMAIN members |->
                            [paper_id |-> members[i], tag_id |-> tid, weight |-> 10]]
         IN ClusterLoop([tags  |-> WithMetaSize(tt, tid, Cardinality(valid[idx])),
                         pts   |-> LinkPaperTags(s.pts, requests),
                         count |-> s.count + Len(members)],
                        valid, idx + 1)

\* _assign_cluster_tags on the store s
ClusterPass(s, citeSet) ==
    IF citeSet = {} THEN [tags |-> s.tags, pts |-> s.pts, count |-> 0]
    ELSE LET communities == LabelPropagationCommunities(citeSet)
             kept  == SelectSeq(communities,
                                LAMBDA c : Cardinality(c) >= MinCommunitySize)
             valid == Take(SortedDescWith(kept,
                               [i \in DOMAIN kept |-> Cardinality(kept[i])],
                               LAMBDA a, b : a > b),
                           MaxClusters)
         IN ClusterLoop([tags |-> s.tags, pts |-> s.pts, count |-> 0], valid, 1)

\* a corpus with a citation clique: years, citation counts (with ties) and
\* the clique on papers 1..5
CitedYears == <<2019, 2020, 2021, 2020, 2019, NoYear>>

CitedCounts == <<3, 3, 1, 0, 2, 2>>

CitedClique == {<<i, j>> : i \in 1..5, j \in 1..5} \ {<<i, i>> : i \in 1..5}

LabelInit ==
    /\ tags = <<>>
    /\ edges = <<>>
    /\ logs = <<>>
    /\ learn = NoLearn
    /\ expanded = NoExpand
    /\ \/ \E n \in UniformSizes : papers = [i \in 1..n |-> Paper(2020, JsonNull, i)]
       \/ papers = <<>>
    /\ paper_tags = <<>>
    /\ labelled = NoPass
    /\ citations = {}
    /\ searched = NoSearch
    /\ matched = NoMatch
    /\ job = NoJob
    /\ crawled = NoCrawl
    /\ step = NoStep
    /\ sessions = NoSessions

\* _assign_impact_tags
AssignImpactTags(ascending) ==
    /\ LET ranked == RankedPapers(papers, ascending)
           tt     == WithImpactTags(tags)
       IN IF ranked = <<>>
          THEN /\ labelled' = [pass |-> "impact", count |-> 0, ranked |-> ranked]
               /\ UNCHANGED <<tags, paper_tags>>
          ELSE /\ tags' = tt
               /\ paper_tags' = LinkPaperTags(paper_tags, ImpactRequests(tt, ranked))
               /\ labelled' = [pass |-> "impact", count |-> BandedCount(ranked),
                               ranked |-> ranked]
    /\ UNCHANGED <<papers, edges, logs, learn, expanded, searchVars, matchVars, crawlVars, learnVars>>

\* a paper is ingested (out of the labeller's scope)
AddPaper(citations_count) ==
    /\ Len(papers) < MaxPapers
    /\ papers' = Append(papers, Paper(2020, JsonNull, citations_count))
    /\ UNCHANGED <<tags, edges, logs, learn, expanded, paper_tags, labelled, searchVars, matchVars, crawlVars, learnVars>>

\* the external citation count of a paper is refreshed
SetCitationsCount(p, citations_count) ==
    /\ Len(papers) <= MaxPapers
    /\ p \in DOMAIN papers
    /\ papers[p].citations_count # citations_count
    /\ papers' = [papers EXCEPT ![p].citations_count = citations_count]
    /\ UNCHANGED <<tags, edges, logs, learn, expanded, paper_tags, labelled, searchVars, matchVars, crawlVars, learnVars>>

LabelNext ==
    \/ \E ascending \in BOOLEAN : AssignImpactTags(ascending)
    \/ \E c \in 0..MaxCitations : AddPaper(c)
    \/ \E p \in 1..MaxPapers, c \in 0..MaxCitations : SetCitationsCount(p, c)

SpecLabel == LabelInit /\ [][LabelNext]_vars

\* the papers linked to the impact tag of the given key
ImpactTagged(key) ==
    {paper_tags[r].paper_id : r \in
        {q \in DOMAIN paper_tags :
            paper_tags[q].tag_id = FindTagInCategory(tags, key, "impact")}}

\* C4: on 100 papers with citations_count 1..100, one impact pass links
\* "Seminal Work" to the most cited paper only, "High Impact" to the next 4,
\* "Significant" to the next 15 and nothing to the other 80
C4_UniformHundred ==
    (Len(papers) = 100 /\ labelled.pass = "impact") =>
        /\ ImpactTagged("impact_seminal") = {100}
        /\ ImpactTagged("impact_high") = 96..99
        /\ ImpactTagged("impact_significant") = 81..95
        /\ {paper_tags[r].paper_id : r \in DOMAIN paper_tags} = 81..100

(***************************************************************************)
(* The labelling specification of analyze_network: the corpus with the     *)
(* citation clique, or a corpus that grows, is labelled and labelled again *)
(***************************************************************************)
NetworkInit ==
    /\ tags = <<>>
    /\ edges = <<>>
    /\ logs = <<>>
    /\ learn = NoLearn
    /\ expanded = NoExpand
    /\ \/ /\ papers = <<>>
          /\ citations = {}
       \/ /\ papers = [i \in DOMAIN CitedYears |->
                          Paper(CitedYears[i], JsonNull, CitedCounts[i])]
          /\ citations \in {CitedClique, {c \in CitedClique : c[1] < c[2]}}
    /\ paper_tags = <<>>
    /\ labelled = NoPass
    /\ searched = NoSearch
    /\ matched = NoMatch
    /\ job = NoJob
    /\ crawled = NoCrawl
    /\ step = NoStep
    /\ sessions = NoSessions

\* analyze_network: the three passes in turn, each committing its rows;
\* ascending is the order in which the store returns rows of equal
\* citations_count
AnalyzeNetwork(ascending) ==
    /\ \E g \in {GenerationPass([tags |-> tags, pts |-> paper_tags], papers)} :
       \E i \in {ImpactPass(g, papers, ascending)} :
       \E c \in {ClusterPass(i, citations)} :
         /\ tags' = c.tags
         /\ paper_tags' = c.pts
         /\ labelled' = [pass |-> "network", count |-> i.count,
                         ranked |-> RankedPapers(papers, ascending),
                         ascending |-> ascending, papers |-> papers,
                         tagsBefore |-> tags, ptBefore |-> paper_tags,
                         rerun |-> /\ labelled.pass = "network"
                                   /\ labelled.papers = papers
                                   /\ labelled.ascending = ascending,
                         stats |-> [generation_tags |-> g.count,
                                    impact_tags |-> i.count,
                                    cluster_tags |-> c.count]]
    /\ UNCHANGED <<papers, edges, logs, learn, expanded, searchVars, matchVars, crawlVars, learnVars>>

NetworkNext ==
    \/ \E ascending \in BOOLEAN : AnalyzeNetwork(ascending)
    \/ \E c \in 0..MaxCitations : AddPaper(c)

SpecNetwork == NetworkInit /\ [][NetworkNext]_vars

(***************************************************************************)
(* Semantic group matcher (expand_keywords) and the merge of the graph     *)
(* expansion into the expanded keywords                                    *)
(***************************************************************************)
RECURSIVE Join(_, _)
\* sep.join(words)
Join(words, sep) ==
    IF words = <<>> THEN <<>>
    ELSE IF Len(words) = 1 THEN words[1]
    ELSE words[1] \o sep \o Join(Tail(words), sep)

\* w in text, for a non-empty w
Contains(text, w) ==
    \E i \in 1..(Len(text) - Len(w) + 1) : SubSeq(text, i, i + Len(w) - 1) = w

\* the configured groups, in the order of the configuration dict: name,
\* words, auto_learned words and static weight (tenths)
SemanticGroups ==
    << [name |-> "walk", words |-> <<wab, <<" ", "B">> >>, auto_learned |-> <<wab>>,
        weight |-> 12],
       [name |-> "tod",  words |-> <<wa_b>>, auto_learned |-> <<>>, weight |-> 10] >>

RECURSIVE DistinctBy(_, _)
\* the items of s whose image under f[..] was not seen earlier, in order
DistinctBy(s, f) ==
    IF s = <<>> THEN <<>>
    ELSE LET init == DistinctBy(SubSeq(s, 1, Len(s) - 1), f)
             x    == s[Len(s)]
         IN IF \E i \in DOMAIN init : f[init[i]] = f[x] THEN init ELSE Append(init, x)

\* all_words of a group: words + auto_learned, stripped, empty ones dropped,
\* exact duplicates dropped
AllWords(group) ==
    LET raw      == group.words \o group.auto_learned
        stripped == [i \in DOMAIN raw |-> Strip(raw[i])]
        kept     == SelectSeq(stripped, LAMBDA w : w # <<>>)
    IN DistinctInOrder(kept)

\* matched words of a group: those whose lower case is inside lower_text
MatchedWords(group, text) ==
    SelectSeq(AllWords(group), LAMBDA w : Contains(Lower(text), Lower(w)))

\* detect_and_activate_groups: the activated groups, in configuration order
DetectAndActivateGroups(text) ==
    IF text = <<>> THEN <<>>
    ELSE LET act == SelectSeq(SemanticGroups,
                              LAMBDA g : MatchedWords(g, text) # <<>>)
         IN [i \in DOMAIN act |->
               [name |-> act[i].name,
                matched_words |-> MatchedWords(act[i], text),
                all_words |-> AllWords(act[i]),
                weight |-> act[i].weight]]

RECURSIVE Flatten(_)
Flatten(ss) == IF ss = <<>> THEN <<>> ELSE Head(ss) \o Flatten(Tail(ss))

\* a merge that compares the words as they are
MergeExact(words) == DistinctInOrder(words)

\* the merge loops of expand_keywords and of search: words whose lower case
\* was already seen are dropped
MergeIgnoringCase(words) ==
    DistinctBy(words, [w \in Range(words) |-> Lower(w)])

\* SemanticGroupService.expand_keywords(keywords, text)
GroupExpandKeywords(keywords, text) ==
    LET base   == SelectSeq([i \in DOMAIN keywords |-> Strip(keywords[i])],
                            LAMBDA k : k # <<>>)
        joined == IF text # <<>> THEN text ELSE Join(base, <<" ">>)
        act    == DetectAndActivateGroups(joined)
        extra  == Flatten([i \in DOMAIN act |-> act[i].all_words])
    IN [keywords |-> MergeIgnoringCase(base \o extra), activated_groups |-> act]

\* step 1.1 of search: the names the graph expansion returns, appended
\* unless present ignoring case; a dict of names iterates in the order the
\* result tags were read (tag id order)
GraphExpandedNames(tagTable, edgeTable, keywords) ==
    LET top  == TopTagIds(tagTable, edgeTable, keywords, 10)
        read == SelectSeq([t \in DOMAIN tagTable |-> t], LAMBDA t : t \in top)
    IN DistinctInOrder([i \in DOMAIN read |-> tagTable[read[i]].name])

ExpandedKeywords(tagTable, edgeTable, keywords) ==
    MergeIgnoringCase(
        GroupExpandKeywords(keywords, Join(keywords, <<" ">>)).keywords
          \o GraphExpandedNames(tagTable, edgeTable, keywords))

(***************************************************************************)
(* The matcher specification: expand_keywords is called with keyword lists *)
(* and texts                                                               *)
(***************************************************************************)
\* the longest keyword list of a call
MaxKeywords == 2

\* keywords of a call: with and without surrounding blanks, blank, empty,
\* in both cases
MatchKeywords == {wAb, <<"A", "b", " ">>, wB, wa_b, <<" ">>, <<>>}

\* the text argument: absent, or a description
MatchTexts == {<<>>, <<"a", "_", "B">>, <<"x">>}

MatchInit ==
    /\ tags = <<>>
    /\ edges = <<>>
    /\ logs = <<>>
    /\ learn = NoLearn
    /\ expanded = NoExpand
    /\ papers = <<>>
    /\ paper_tags = <<>>
    /\ labelled = NoPass
    /\ citations = {}
    /\ searched = NoSearch
    /\ matched = NoMatch
    /\ job = NoJob
    /\ crawled = NoCrawl
    /\ step = NoStep
    /\ sessions = NoSessions

\* a call of expand_keywords(keywords, text)
CallExpandKeywords(keywords, text) ==
    /\ matched' = [called |-> TRUE, keywords |-> keywords, text |-> text,
                   result |-> GroupExpandKeywords(keywords, text)]
    /\ UNCHANGED <<tags, edges, logs, learn, expanded, labelVars, searchVars, crawlVars, learnVars>>

MatchNext ==
    \E n \in 0..MaxKeywords : \E keywords \in [1..n -> MatchKeywords] :
        \E text \in MatchTexts : CallExpandKeywords(keywords, text)

SpecMatch == MatchInit /\ [][MatchNext]_vars

(***************************************************************************)
(* The crawl-job specification: a job is created, stepped, paused,         *)
(* resumed and retried                                                     *)
(***************************************************************************)
\* the calls of the crawl service in a behaviour
MaxCrawlCalls == 4

\* max_results and page_size of the job (CrawlJobCreate: both >= 1)
JobMaxResults == {1, 3}

JobPageSizes == {1, 2}

\* the messages of the exceptions the fetch raises
FetchErrors == {"Simulated Network Error", "timeout"}

\* a log entry without its timestamp: level, message, and what the message
\* carries (the exception text, the counters of the round)
LogEntry(level, msg, e, new_papers, fetched_count, current_page) ==
    [level |-> level, msg |-> msg, e |-> e, new_papers |-> new_papers,
     fetched_count |-> fetched_count, current_page |-> current_page]

\* append_log that starts from an empty list
AppendLogReset(row, entry) == [row EXCEPT !.log = Log(<<entry>>)]

\* CrawlJob.append_log: the entries of a NULL log are [], the log becomes
\* {"entries": entries + [entry]}
AppendLog(row, entry) ==
    [row EXCEPT !.log = Log(Append(IF row.log.null THEN <<>> ELSE row.log.entries, entry))]

\* what the try block of run_crawl_job_once meets: the fetch raises e, the
\* fetch returns and the staging write raises e on flush, or both succeed
\* with new staging rows
FetchOutcome(kind, e, new) == [kind |-> kind, e |-> e, new |-> new]

FetchOutcomes(limit) ==
    {FetchOutcome("fetch_raises", e, 0) : e \in FetchErrors}
      \cup {FetchOutcome("staging_raises", "IntegrityError", 0)}
      \cup {FetchOutcome("ok", "", n) : n \in 0..limit}

\* what a call leaves behind: what it raised and returned, what its try
\* block met, and the row it found
Crawled(op, raised, error, new_count, fetch) ==
    [op |-> op, calls |-> crawled.calls + 1, raised |-> raised, error |-> error,
     new_count |-> new_count, fetch |-> fetch, before |-> job]

CrawlInit ==
    /\ tags = <<>>
    /\ edges = <<>>
    /\ logs = <<>>
    /\ learn = NoLearn
    /\ expanded = NoExpand
    /\ papers = <<>>
    /\ paper_tags = <<>>
    /\ labelled = NoPass
    /\ citations = {}
    /\ searched = NoSearch
    /\ matched = NoMatch
    /\ job = NoJob
    /\ crawled = NoCrawl
    /\ step = NoStep
    /\ sessions = NoSessions

\* create_crawl_job(db, payload)
CreateCrawlJob(max_results, page_size) ==
    /\ crawled.calls < MaxCrawlCalls
    /\ job = NoJob
    /\ job' = [status |-> "pending", max_results |-> max_results, page_size |-> page_size,
               current_page |-> 0, fetched_count |-> 0, failed_count |-> 0,
               log |-> Log(<<>>)]
    /\ crawled' = Crawled("create", FALSE, "", 0, NoFetch)
    /\ UNCHANGED <<tags, edges, logs, learn, expanded, labelVars, searchVars, matchVars, step, learnVars>>

\* the except branch of run_crawl_job_once without the final raise
FetchFailedSwallowed(row, e) ==
    [job |-> AppendLog([row EXCEPT !.status = "failed",
                                   !.failed_count = row.failed_count + 1],
                       LogEntry("error", "fetch pipeline failed", e, 0, 0, 0)),
     raised |-> FALSE, error |-> "", new_count |-> 0]

\* the except branch of run_crawl_job_once: status failed, failed_count + 1,
\* an error entry with the exception text, commit, raise
FetchFailed(row, e) ==
    [job |-> AppendLog([row EXCEPT !.status = "failed",
                                   !.failed_count = row.failed_count + 1],
                       LogEntry("error", "fetch pipeline failed", e, 0, 0, 0)),
     raised |-> TRUE, error |-> e, new_count |-> 0]

\* the end of run_crawl_job_once after a round without exception
RoundDone(row, new_count) ==
    LET counted == [row EXCEPT !.fetched_count = row.fetched_count + new_count,
                               !.current_page = row.current_page + 1]
        logged  == AppendLog(counted,
                       LogEntry("info", "run_once done", "", new_count,
                                counted.fetched_count, counted.current_page))
    IN [job |-> [logged EXCEPT !.status = IF logged.fetched_count >= logged.max_results
                                          THEN "completed" ELSE "pending"],
        raised |-> FALSE, error |-> "", new_count |-> new_count]

\* run_crawl_job_once(db, job_id) on the job, or on an id without a row
RunCrawlJobOnce(out) ==
    /\ crawled.calls < MaxCrawlCalls
    /\ IF job = NoJob
       THEN \* ValueError
            /\ crawled' = Crawled("run_once", TRUE, "ValueError", 0, NoFetch)
            /\ UNCHANGED job
       ELSE IF job.status \in {"completed", "failed", "paused"}
       THEN /\ crawled' = Crawled("run_once", FALSE, "", 0, NoFetch)
            /\ UNCHANGED job
       ELSE LET running   == [job EXCEPT !.status = "running"]
                remaining == Max(job.max_results - job.fetched_count, 0)
                limit     == Min(job.page_size, remaining)
            IN IF remaining <= 0
               THEN /\ job' = AppendLog([running EXCEPT !.status = "completed"],
                                   LogEntry("info", "max_results reached", "", 0, 0, 0))
                    /\ crawled' = Crawled("run_once", FALSE, "", 0, NoFetch)
               ELSE   /\ out \in FetchOutcomes(limit)
                      /\ \E r \in {IF out.kind = "fetch_raises" THEN FetchFailed(running, out.e)
                                    ELSE IF out.kind = "staging_raises"
                                    THEN \* the session is left pending rollback: the
                                         \* commit of the except branch raises, the row
                                         \* keeps what the first commit wrote
                                         [job |-> running, raised |-> TRUE,
                                          error |-> "PendingRollbackError", new_count |-> 0]
                                    ELSE RoundDone(running, out.new)} :
                           /\ job' = r.job
                           /\ crawled' = Crawled("run_once", r.raised, r.error, r.new_count, out)
    /\ UNCHANGED <<tags, edges, logs, learn, expanded, labelVars, searchVars, matchVars, step, learnVars>>

\* pause_crawl_job(db, job_id)
PauseCrawlJob ==
    /\ crawled.calls < MaxCrawlCalls
    /\ job # NoJob
    /\ job' = IF job.status \notin {"pending", "running"} THEN job
              ELSE AppendLog([job EXCEPT !.status = "paused"],
                             LogEntry("info", "marked paused", "", 0, 0, 0))
    /\ crawled' = Crawled("pause", FALSE, "", 0, NoFetch)
    /\ UNCHANGED <<tags, edges, logs, learn, expanded, labelVars, searchVars, matchVars, step, learnVars>>

\* resume_crawl_job(db, job_id)
ResumeCrawlJob ==
    /\ crawled.calls < MaxCrawlCalls
    /\ job # NoJob
    /\ job' = IF job.status # "paused" THEN job
              ELSE AppendLog([job EXCEPT !.status = "pending"],
                             LogEntry("info", "resumed to pending", "", 0, 0, 0))
    /\ crawled' = Crawled("resume", FALSE, "", 0, NoFetch)
    /\ UNCHANGED <<tags, edges, logs, learn, expanded, labelVars, searchVars, matchVars, step, learnVars>>

\* retry_crawl_job(db, job_id)
RetryCrawlJob ==
    /\ crawled.calls < MaxCrawlCalls
    /\ job # NoJob
    /\ job' = AppendLog([job EXCEPT !.current_page = 0, !.fetched_count = 0,
                                    !.failed_count = 0, !.status = "pending"],
                        LogEntry("info", "retried, counters reset to 0", "", 0, 0, 0))
    /\ crawled' = Crawled("retry", FALSE, "", 0, NoFetch)
    /\ UNCHANGED <<tags, edges, logs, learn, expanded, labelVars, searchVars, matchVars, step, learnVars>>

CrawlNext ==
    \/ \E m \in JobMaxResults, s \in JobPageSizes : CreateCrawlJob(m, s)
    \/ \E out \in FetchOutcomes(CHOOSE m \in JobPageSizes : \A x \in JobPageSizes : x <= m) :
         RunCrawlJobOnce(out)
    \/ PauseCrawlJob
    \/ ResumeCrawlJob
    \/ RetryCrawlJob

SpecCrawl == CrawlInit /\ [][CrawlNext]_vars

(***************************************************************************)
(* The crawl-job specification with requests in parallel: a step commits   *)
(* "running", fetches, and commits its result from the row its session     *)
(* loaded, while other requests commit in between                          *)
(***************************************************************************)
\* the UPDATE of a commit: the columns the session changed on the row it
\* loaded are written, the others keep what the table holds
CommitChanges(loaded, changed) ==
    [status        |-> IF changed.status # loaded.status
                       THEN changed.status ELSE job.status,
     max_results   |-> job.max_results,
     page_size     |-> job.page_size,
     current_page  |-> IF changed.current_page # loaded.current_page
                       THEN changed.current_page ELSE job.current_page,
     fetched_count |-> IF changed.fetched_count # loaded.fetched_count
                       THEN changed.fetched_count ELSE job.fetched_count,
     failed_count  |-> IF changed.failed_count # loaded.failed_count
                       THEN changed.failed_count ELSE job.failed_count,
     log           |-> IF changed.log # loaded.log THEN changed.log ELSE job.log]

\* run_crawl_job_once up to the fetch: the early returns, the commit of
\* "running" and the load of the row, the remaining <= 0 exit
BeginRunOnce ==
    /\ crawled.calls < MaxCrawlCalls
    /\ job # NoJob
    /\ ~step.active
    /\ IF job.status \in {"completed", "failed", "paused"}
       THEN /\ crawled' = Crawled("run_once", FALSE, "", 0, NoFetch)
            /\ UNCHANGED <<job, step>>
       ELSE LET running == [job EXCEPT !.status = "running"]
            IN IF Max(job.max_results - job.fetched_count, 0) <= 0
               THEN /\ job' = AppendLog([running EXCEPT !.status = "completed"],
                                   LogEntry("info", "max_results reached", "", 0, 0, 0))
                    /\ crawled' = Crawled("run_once", FALSE, "", 0, NoFetch)
                    /\ UNCHANGED step
               ELSE /\ job' = running
                    /\ step' = [active |-> TRUE, row |-> running]
                    /\ crawled' = Crawled("run_once_begin", FALSE, "", 0, NoFetch)
    /\ UNCHANGED <<tags, edges, logs, learn, expanded, labelVars, searchVars, matchVars, learnVars>>

\* run_crawl_job_once from the fetch on: the try block and the commit of the
\* except branch or of the end of the round.  The commit that ends the
\* staging write expires the row, which is then loaded again: the round ends
\* on the row as loaded before the requests in between, or after them
FinishRunOnce(out) ==
    /\ step.active
    /\ out \in FetchOutcomes(Min(step.row.page_size,
                                 Max(step.row.max_results - step.row.fetched_count, 0)))
    /\ \E loaded \in (IF out.kind = "ok" THEN {step.row, job} ELSE {step.row}) :
       \E r \in {IF out.kind = "fetch_raises" THEN FetchFailed(loaded, out.e)
                  ELSE IF out.kind = "staging_raises"
                  THEN [job |-> loaded, raised |-> TRUE,
                        error |-> "PendingRollbackError", new_count |-> 0]
                  ELSE RoundDone(loaded, out.new)} :
         /\ job' = CommitChanges(loaded, r.job)
         /\ crawled' = [op |-> "run_once", calls |-> crawled.calls, raised |-> r.raised,
                        error |-> r.error, new_count |-> r.new_count, fetch |-> out,
                        before |-> job]
    /\ step' = NoStep
    /\ UNCHANGED <<tags, edges, logs, learn, expanded, labelVars, searchVars, matchVars, learnVars>>

ParallelCrawlNext ==
    \/ \E m \in JobMaxResults, s \in JobPageSizes : CreateCrawlJob(m, s)
    \/ BeginRunOnce
    \/ \E out \in FetchOutcomes(CHOOSE m \in JobPageSizes : \A x \in JobPageSizes : x <= m) :
         FinishRunOnce(out)
    \/ PauseCrawlJob
    \/ ResumeCrawlJob
    \/ RetryCrawlJob

SpecParallelCrawl == CrawlInit /\ [][ParallelCrawlNext]_vars

(***************************************************************************)
(* Similarity scorer (steps 3 and 4 of search)                             *)
(***************************************************************************)
\* sqrt on the squares the vectors of the model have as squared norms
ISqrt(n) == CHOOSE r \in 0..n : r * r = n

Dot(q, v) == SumOver([i \in DOMAIN q |-> q[i] * v[i]], DOMAIN q)

\* _cosine_similarity
CosineSimilarity(q, v) ==
    IF q = <<>> \/ v = <<>> THEN FZero
    ELSE IF Len(q) # Len(v) THEN FZero
    ELSE IF Dot(q, q) = 0 \/ Dot(v, v) = 0 THEN FZero
    ELSE Frac(Dot(q, v), ISqrt(Dot(q, q)) * ISqrt(Dot(v, v)))

\* db.query(Paper).filter(Paper.embedding.isnot(None)) with the year
\* filters: the ids of the candidates, in id order; a NULL year fails a
\* year comparison
Candidates(paperTable, year_from, year_to) ==
    SelectSeq([i \in DOMAIN paperTable |-> i],
        LAMBDA p :
            /\ paperTable[p].embedding.kind # "sql_null"
            /\ year_from # NoYear =>
                 (paperTable[p].year # NoYear /\ paperTable[p].year >= year_from)
            /\ year_to # NoYear =>
                 (paperTable[p].year # NoYear /\ paperTable[p].year <= year_to))

Hit(p, score) == [paper |-> p, score |-> score]

\* Scored without the isinstance(vec, list) test
ScoredUnchecked(paperTable, candidates, query_vec) ==
    [i \in DOMAIN candidates |->
        Hit(candidates[i],
            CosineSimilarity(query_vec, paperTable[candidates[i]].embedding.vec))]

\* both scans skip a candidate whose embedding is not a list
Scored(paperTable, candidates, query_vec) ==
    LET lists == SelectSeq(candidates, LAMBDA p : paperTable[p].embedding.kind = "list")
    IN [i \in DOMAIN lists |->
          Hit(lists[i], CosineSimilarity(query_vec, paperTable[lists[i]].embedding.vec))]

\* 3.1: the hits of strictly positive score
PositiveHits(paperTable, candidates, query_vec) ==
    SelectSeq(Scored(paperTable, candidates, query_vec), LAMBDA h : FGt(h.score, FZero))

\* ScanHits without the fallback of step 3.2
ScanHitsNoFallback(paperTable, candidates, query_vec) ==
    PositiveHits(paperTable, candidates, query_vec)

\* 3.2: without a positive hit, every scored candidate is a hit
ScanHits(paperTable, candidates, query_vec) ==
    LET hits == PositiveHits(paperTable, candidates, query_vec)
    IN IF hits = <<>> /\ candidates # <<>>
       THEN Scored(paperTable, candidates, query_vec)
       ELSE hits

\* hits.sort(key=score, reverse=True)
SortHits(hits) ==
    SortedDescWith(hits, [i \in DOMAIN hits |-> hits[i].score], FGt)

\* ScorerHits that cuts before it sorts
ScorerHitsCutFirst(paperTable, candidates, query_vec, limit) ==
    LET scanned == ScanHits(paperTable, candidates, query_vec)
    IN SortHits(IF limit > 0 THEN Take(scanned, limit) ELSE scanned)

\* 4: sort, then "if limit > 0: hits = hits[:limit]"
ScorerHits(paperTable, candidates, query_vec, limit) ==
    LET sorted == SortHits(ScanHits(paperTable, candidates, query_vec))
    IN IF limit > 0 THEN Take(sorted, limit) ELSE sorted

(***************************************************************************)
(* Graph recall enhancer (_apply_tag_recall_enhancement) and the citation  *)
(* expansion it calls                                                      *)
(***************************************************************************)
\* defaults of _apply_tag_recall_enhancement: max_seed, alpha
MaxSeed == 50

Alpha == <<3, 10>>

HitIds(hits) == {hits[i].paper : i \in DOMAIN hits}

\* tag_counts of the harvest: the summed weights (tenths) of the seed rows
\* of a tag
HarvestCount(ptTable, seeds, t) ==
    LET rows == {r \in DOMAIN ptTable :
                   ptTable[r].paper_id \in seeds /\ ptTable[r].tag_id = t}
    IN SumOver([r \in rows |-> ptTable[r].weight], rows)

HarvestedTags(ptTable, seeds) ==
    {ptTable[r].tag_id : r \in {q \in DOMAIN ptTable : ptTable[q].paper_id \in seeds}}

\* 3.1: the tags of the groups of the harvested tags that were not harvested
PropagatedTags(edgeTable, harvested) ==
    LET involved == {edgeTable[e].gid :
                       e \in {f \in DOMAIN edgeTable : edgeTable[f].tid \in harvested}}
    IN {edgeTable[e].tid :
          e \in {f \in DOMAIN edgeTable : edgeTable[f].gid \in involved}} \ harvested

\* tag_counts after propagation (tenths): a propagated tag counts 0.5
TagCounts(ptTable, edgeTable, seeds) ==
    LET harvested == HarvestedTags(ptTable, seeds)
    IN [t \in harvested \cup PropagatedTags(edgeTable, harvested) |->
          IF t \in harvested THEN HarvestCount(ptTable, seeds, t) ELSE 5]

\* tag_boost = count / max_count when max_count > 0, else empty
TagBoost(tag_counts) ==
    LET max_count == IF DOMAIN tag_counts = {} THEN 0
                     ELSE CHOOSE c \in Range(tag_counts) :
                            \A x \in Range(tag_counts) : x <= c
    IN IF max_count > 0
       THEN [t \in DOMAIN tag_counts |-> Frac(tag_counts[t], max_count)]
       ELSE <<>>

\* paper_tags_map: the hit papers that have PaperTag rows
TaggedHitIds(ptTable, hits) ==
    {p \in HitIds(hits) : \E r \in DOMAIN ptTable : ptTable[r].paper_id = p}

\* paper_tag_score[pid]: the sum of boost * weight over the rows of pid
\* whose tag has a non-zero boost
PaperTagScore(ptTable, tag_boost, pid) ==
    LET rows == SelectSeq(ptTable,
                  LAMBDA r : /\ r.paper_id = pid
                             /\ r.tag_id \in DOMAIN tag_boost
                             /\ tag_boost[r.tag_id] # FZero)
    IN FSum([i \in DOMAIN rows |->
               FMul(tag_boost[rows[i].tag_id], Frac(rows[i].weight, 10))])

\* max(values) if values else 1.0, and 1.0 instead of 0
NormalizerOf(values) ==
    IF values = {} THEN <<1, 1>>
    ELSE IF FMax(values) = FZero THEN <<1, 1>> ELSE FMax(values)

\* expand_candidates_using_citation_graph(seed_paper_ids, limit=50): each
\* outgoing and each incoming edge between a seed and a non-seed adds 1.0
\* to the non-seed; at most 50 candidates are kept
CitationCandidates(citeSet, seeds) ==
    LET cand == {x \in {c[1] : c \in citeSet} \cup {c[2] : c \in citeSet} :
                    /\ x \notin seeds
                    /\ \E z \in seeds : <<z, x>> \in citeSet \/ <<x, z>> \in citeSet}
    IN [x \in cand |->
          Cardinality({z \in seeds : <<z, x>> \in citeSet})
            + Cardinality({z \in seeds : <<x, z>> \in citeSet})]

\* ExpandedHits with one hit per citation row that reaches a new paper
\* instead of one per key of citation_candidates
ExpandedHitsPerCitation(paperTable, citation_candidates, hits) ==
    LET new == SelectSeq([i \in DOMAIN paperTable |-> i],
                 LAMBDA p : p \in DOMAIN citation_candidates /\ p \notin HitIds(hits))
    IN Flatten([i \in DOMAIN new |->
                  [k \in 1..citation_candidates[new[i]] |-> Hit(new[i], FZero)]])

\* the hits for the papers found by the citation expansion that are not hits
\* yet, in id order, with score 0
ExpandedHits(paperTable, citation_candidates, hits) ==
    LET new == SelectSeq([i \in DOMAIN paperTable |-> i],
                 LAMBDA p : p \in DOMAIN citation_candidates /\ p \notin HitIds(hits))
    IN [i \in DOMAIN new |-> Hit(new[i], FZero)]

\* TagSignal that gives a paper outside paper_tag_score the full signal
TagSignalDefaultOne(paper_tag_score, max_tag_score, pid) ==
    IF pid \in DOMAIN paper_tag_score
    THEN FDiv(paper_tag_score[pid], max_tag_score) ELSE <<1, 1>>

\* tag_signal: paper_tag_score[pid] / max_tag_score for a paper that has
\* PaperTag rows, else 0.0
TagSignal(paper_tag_score, max_tag_score, pid) ==
    IF pid \in DOMAIN paper_tag_score
    THEN FDiv(paper_tag_score[pid], max_tag_score) ELSE FZero

\* citation_signal: paper_citation_score[pid] / max_citation_score for a
\* citation candidate, else 0.0
CitationSignal(paper_citation_score, max_citation_score, pid) ==
    IF pid \in DOMAIN paper_citation_score
    THEN FDiv(Frac(paper_citation_score[pid], 1), max_citation_score) ELSE FZero

\* graph_score = 0.6 * tag_signal + 0.4 * citation_signal;
\* new_score = score + alpha * graph_score
NewScore(score, tag_signal, citation_signal, alpha) ==
    FAdd(score, FMul(alpha, FAdd(FMul(<<3, 5>>, tag_signal),
                                 FMul(<<2, 5>>, citation_signal))))

EnhancerDebug(enabled, reason, seed_size, tag_count, new_tags, expansion) ==
    [enabled |-> enabled, reason |-> reason, seed_size |-> seed_size,
     tag_count |-> tag_count, new_tags |-> new_tags,
     citation_expansion_count |-> expansion]

\* _apply_tag_recall_enhancement(db, hits, max_seed, alpha): [hits, debug]
ApplyTagRecallEnhancement(paperTable, ptTable, edgeTable, citeSet, hits, max_seed, alpha) ==
    IF hits = <<>>
    THEN [hits |-> hits, debug |-> EnhancerDebug(FALSE, "no_hits", 0, 0, 0, 0)]
    ELSE
      LET seeds      == HitIds(Take(hits, max_seed))
          tag_counts == TagCounts(ptTable, edgeTable, seeds)
          tag_boost  == TagBoost(tag_counts)
          tagged     == TaggedHitIds(ptTable, hits)
          tag_score  == [p \in tagged |-> PaperTagScore(ptTable, tag_boost, p)]
          max_tag    == NormalizerOf(Range(tag_score))
          cite_score == CitationCandidates(citeSet, seeds)
          max_cite   == NormalizerOf({Frac(cite_score[x], 1) : x \in DOMAIN cite_score})
          all_hits   == hits \o ExpandedHits(paperTable, cite_score, hits)
          enhanced   == [i \in DOMAIN all_hits |->
                           Hit(all_hits[i].paper,
                               NewScore(all_hits[i].score,
                                        TagSignal(tag_score, max_tag, all_hits[i].paper),
                                        CitationSignal(cite_score, max_cite,
                                                       all_hits[i].paper),
                                        alpha))]
      IN [hits  |-> SortHits(enhanced),
          debug |-> EnhancerDebug(TRUE, None, Cardinality(seeds),
                       Cardinality(DOMAIN tag_boost),
                       Cardinality(DOMAIN tag_counts \ HarvestedTags(ptTable, seeds)),
                       Cardinality(DOMAIN cite_score))]

(***************************************************************************)
(* search, and the specification of the retrieval request                  *)
(***************************************************************************)
\* the stores a search runs on: three papers of fixed years whose
\* embeddings, PaperTag rows and citation edges are drawn from these sets
PaperYears == <<2019, 2021, 2021>>

EmbeddingChoices ==
    << {Vec(<<1, 0>>), Vec(<<0, 1>>), Vec(<<3, 4>>)},
       {Vec(<<3, 4>>), Vec(<<-1, 0>>), Vec(<<2, 0>>), Vec(<<1>>)},
       {SqlNull, JsonNull, Vec(<<3, 4>>)} >>

PaperTagRow(paper_id, tag_id, weight) ==
    [paper_id |-> paper_id, tag_id |-> tag_id, weight |-> weight]

PaperTagChoices ==
    { <<>>,
      <<PaperTagRow(1, 1, 10), PaperTagRow(2, 1, 10)>>,
      <<PaperTagRow(3, 2, 5)>> }

CitationChoices ==
    { {}, {<<1, 3>>, <<3, 1>>}, {<<2, 1>>, <<1, 1>>, <<3, 2>>} }

\* the tag groups of the store: tags 1 and 3 of InitialTags in group 1
SearchEdges == << [gid |-> 1, tid |-> 1, w |-> 10], [gid |-> 1, tid |-> 3, w |-> 20] >>

\* what the embedding provider answers for a non-empty text: a failure or a
\* vector
ProviderFailure == [ok |-> FALSE, vec |-> <<>>]

ProviderVector == [ok |-> TRUE, vec |-> <<1, 0>>]

Request(keywords, year_from, year_to, limit, answer, log_fails) ==
    [keywords |-> keywords, year_from |-> year_from, year_to |-> year_to,
     limit |-> limit, answer |-> answer, log_fails |-> log_fails]

\* the requests: every year filter, limit and fate of the log write for a
\* query the provider embeds, and one request each without keywords, with a
\* blank keyword, and with a failing provider
SearchRequests ==
    { Request(<<wAb>>, y[1], y[2], l, ProviderVector, f) :
        y \in { <<NoYear, NoYear>>, <<2020, NoYear>> }, l \in {0, 1, 2}, f \in BOOLEAN }
    \cup { Request(<<>>, NoYear, NoYear, 2, ProviderVector, FALSE),
           Request(<< <<" ">> >>, NoYear, NoYear, 2, ProviderVector, FALSE),
           Request(<<wAb>>, NoYear, 2021, 0, ProviderFailure, FALSE) }

MaxSearches == 1

\* embed_text that lets the exception of the provider call escape as a
\* usable answer
EmbedTextUnguarded(text, answer) ==
    IF Strip(text) = <<>> THEN ProviderFailure ELSE ProviderVector

\* embed_text: None for a text that is empty after strip(), else the
\* provider's answer (None when the call or the parsing raised)
EmbedText(text, answer) ==
    IF Strip(text) = <<>> THEN ProviderFailure ELSE answer

\* the RecallLog row of step 5
QueryLog(keywords, activated, expanded_keywords, total_candidates, hits, tag_recall) ==
    [event_type |-> "query",
     query_keywords |-> keywords,
     group_keys |-> [i \in DOMAIN activated |-> activated[i].name],
     extra |-> [expanded_keywords |-> expanded_keywords,
                total_candidates |-> total_candidates,
                returned_count |-> Len(hits),
                results |-> hits,
                tag_recall |-> tag_recall]]

\* what a call of search leaves behind: its arguments, what it returned
\* (hits, debug, raised) and what it did on the way (scanned: the paper
\* query ran; enhanced: the enhancer ran; scorer_hits: the hits handed to
\* the enhancer; tag_recall: the enhancer's debug record)
SearchOutcome(args, hits, debug, scanned, enhanced, scorer_hits, tag_recall) ==
    [called |-> TRUE, calls |-> searched.calls + 1,
     args |-> args, hits |-> hits, debug |-> debug,
     raised |-> FALSE, scanned |-> scanned, enhanced |-> enhanced,
     scorer_hits |-> scorer_hits, tag_recall |-> tag_recall]

\* search without the try/except around the log write: the exception of
\* db.add/db.commit leaves search
ReturnAfterLogWriteUncaught(outcome, log_fails) ==
    IF log_fails THEN [outcome EXCEPT !.raised = TRUE, !.hits = <<>>] ELSE outcome

\* "except Exception: logger.exception(...)" and "return hits, debug": what
\* search returns does not depend on the fate of the log write
ReturnAfterLogWrite(outcome, log_fails) == outcome

NoTagRecall == EnhancerDebug(FALSE, None, 0, 0, 0, 0)

SearchInit ==
    /\ tags = InitialTags
    /\ edges = SearchEdges
    /\ logs = <<>>
    /\ learn = NoLearn
    /\ expanded = NoExpand
    /\ \E e \in [DOMAIN PaperYears -> UNION Range(EmbeddingChoices)] :
         /\ \A i \in DOMAIN PaperYears : e[i] \in EmbeddingChoices[i]
         /\ papers = [i \in DOMAIN PaperYears |-> Paper(PaperYears[i], e[i], 0)]
    /\ paper_tags \in PaperTagChoices
    /\ labelled = NoPass
    /\ citations \in CitationChoices
    /\ searched = NoSearch
    /\ matched = NoMatch
    /\ job = NoJob
    /\ crawled = NoCrawl
    /\ step = NoStep
    /\ sessions = NoSessions

\* search(db, keywords, year_from, year_to, limit); req.answer is what the
\* embedding provider returns, req.log_fails whether db.add/db.commit of the
\* RecallLog row raises
Search(req) ==
    LET keywords  == req.keywords
        activated == GroupExpandKeywords(keywords, Join(keywords, <<" ">>)).activated_groups
        expanded_keywords == ExpandedKeywords(tags, edges, keywords)
        query_vec  == EmbedText(Join(expanded_keywords, <<",", " ">>), req.answer)
        candidates == Candidates(papers, req.year_from, req.year_to)
    IN /\ searched.calls < MaxSearches
       /\ \E scorer \in {ScorerHits(papers, candidates, query_vec.vec, req.limit)} :
          \E enh \in {ApplyTagRecallEnhancement(papers, paper_tags, edges, citations,
                                                scorer, MaxSeed, Alpha)} :
          IF keywords = <<>>
          THEN /\ searched' = SearchOutcome(req, <<>>, SearchDebugInfo(<<>>, <<>>, 0),
                                            FALSE, FALSE, <<>>, NoTagRecall)
               /\ UNCHANGED logs
          ELSE IF ~query_vec.ok
          THEN /\ searched' = SearchOutcome(req, <<>>,
                                 SearchDebugInfo(expanded_keywords, activated, 0),
                                 FALSE, FALSE, <<>>, NoTagRecall)
               /\ UNCHANGED logs
          ELSE /\ searched' = ReturnAfterLogWrite(
                                 SearchOutcome(req, enh.hits,
                                     SearchDebugInfo(expanded_keywords, activated,
                                                     Len(candidates)),
                                     TRUE, TRUE, scorer, enh.debug),
                                 req.log_fails)
               /\ logs' = IF req.log_fails THEN logs
                          ELSE Append(logs, QueryLog(keywords, activated, expanded_keywords,
                                                     Len(candidates), enh.hits, enh.debug))
       /\ UNCHANGED <<tags, edges, learn, expanded, labelVars, citations, matchVars, crawlVars, learnVars>>

SearchNext == \E req \in SearchRequests : Search(req)

SpecSearch == SearchInit /\ [][SearchNext]_vars

(***************************************************************************)
(* Properties of search                                                    *)
(***************************************************************************)
\* the candidates of the last search whose embedding is a list, and their
\* raw scores
ListCandidates ==
    {p \in Range(Candidates(papers, searched.args.year_from, searched.args.year_to)) :
        papers[p].embedding.kind = "list"}

RawScore(p) == CosineSimilarity(searched.args.answer.vec, papers[p].embedding.vec)

PositiveCandidates == {p \in ListCandidates : FGt(RawScore(p), FZero)}

\* hits is in non-increasing score order
NonIncreasing(hits) ==
    \A i, j \in DOMAIN hits : i < j => ~FGt(hits[j].score, hits[i].score)

\* hits holds the best min(limit, |pool|) papers of pool (all of them for a
\* limit <= 0), once each, with their raw scores
BestOf(hits, pool, limit) ==
    /\ HitIds(hits) \subseteq pool
    /\ \A i \in DOMAIN hits : hits[i].score = RawScore(hits[i].paper)
    /\ \A i, j \in DOMAIN hits : hits[i].paper = hits[j].paper => i = j
    /\ Len(hits) = IF limit > 0 THEN Min(limit, Cardinality(pool)) ELSE Cardinality(pool)
    /\ \A p \in pool \ HitIds(hits), i \in DOMAIN hits : ~FGt(RawScore(p), hits[i].score)
    /\ NonIncreasing(hits)

\* the seeds of the last search have no PaperTag row
SeedsUntagged ==
    \A r \in DOMAIN paper_tags :
        paper_tags[r].paper_id \notin HitIds(Take(searched.scorer_hits, MaxSeed))

\* C3: when no seed has a PaperTag row the enhancer returns its input
\* unchanged, flagged disabled with a reason
C3_UntaggedSeedsNoOp ==
    (searched.called /\ searched.enhanced /\ SeedsUntagged) =>
        /\ searched.hits = searched.scorer_hits
        /\ searched.tag_recall.enabled = FALSE
        /\ searched.tag_recall.reason # None

\* C6: the hit list built from the similarity scan holds no paper whose
\* embedding is null
C6_NoNullEmbeddingHit ==
    (searched.called /\ searched.scanned) =>
        \A i \in DOMAIN searched.scorer_hits :
            papers[searched.scorer_hits[i].paper].embedding.kind = "list"

\* a scan that had a JSON-null paper among its candidates and returned hits
C6_Witness ==
    /\ searched.called /\ searched.scanned
    /\ searched.scorer_hits # <<>>
    /\ \E p \in Range(Candidates(papers, searched.args.year_from, searched.args.year_to)) :
         papers[p].embedding.kind = "json_null"

\* the query of the last search got no vector: the provider failed, or the
\* text to embed was blank
QueryNotEmbedded ==
    \/ searched.args.answer = ProviderFailure
    \/ Strip(Join(searched.debug.expanded_keywords, <<",", " ">>)) = <<>>

\* C7: when the embedding provider fails, search returns no hit and
\* total_candidates = 0, raises nothing, scans no paper and does not run the
\* enhancer
C7_EmbeddingFailureEmpty ==
    (searched.called /\ searched.args.keywords # <<>> /\ QueryNotEmbedded) =>
        /\ searched.hits = <<>>
        /\ searched.debug.total_candidates = 0
        /\ ~searched.raised
        /\ ~searched.scanned
        /\ ~searched.enhanced

\* the provider failed on a store that has candidates for the request
C7_Witness ==
    /\ searched.called
    /\ searched.args.answer = ProviderFailure
    /\ searched.args.keywords # <<>>
    /\ Candidates(papers, searched.args.year_from, searched.args.year_to) # <<>>
    /\ searched.hits = <<>>

\* what search returns for the request of the last search when the log
\* write succeeds
LoggedReturn ==
    LET a == searched.args
        scorer == ScorerHits(papers, Candidates(papers, a.year_from, a.year_to),
                             a.answer.vec, a.limit)
    IN [hits  |-> ApplyTagRecallEnhancement(papers, paper_tags, edges, citations,
                                            scorer, MaxSeed, Alpha).hits,
        debug |-> SearchDebugInfo(
                      ExpandedKeywords(tags, edges, a.keywords),
                      GroupExpandKeywords(a.keywords, Join(a.keywords, <<" ">>)).activated_groups,
                      Len(Candidates(papers, a.year_from, a.year_to)))]

\* C8: when the write of the query event fails, search returns normally,
\* with the hits and the debug info of a search whose write succeeded
C8_LogFailureIgnored ==
    (searched.called /\ searched.scanned /\ searched.args.log_fails) =>
        /\ ~searched.raised
        /\ searched.hits = LoggedReturn.hits
        /\ searched.debug = LoggedReturn.debug

\* a search that returned hits although its log row was not written
C8_Witness ==
    /\ searched.called /\ searched.scanned /\ searched.args.log_fails
    /\ searched.hits # <<>>
    /\ logs = <<>>

\* C9: when the query is embedded and a paper with a non-null embedding
\* passes the year filter, search returns hits; without a positive score the
\* scorer's list is all the candidates by raw score, cut to limit
C9_FallbackNeverEmpty ==
    (searched.called /\ searched.scanned /\ ListCandidates # {}) =>
        /\ searched.hits # <<>>
        /\ PositiveCandidates = {} =>
             BestOf(searched.scorer_hits, ListCandidates, searched.args.limit)

\* the fallback ranked two candidates, one of negative score, and the limit
\* cut one of them
C9_Witness ==
    /\ searched.called /\ searched.scanned
    /\ PositiveCandidates = {}
    /\ Cardinality(ListCandidates) = 2
    /\ \E p \in ListCandidates : FGt(FZero, RawScore(p))
    /\ searched.args.limit = 1
    /\ Len(searched.scorer_hits) = 1

\* C10: with a candidate of positive score, the scorer's list is the
\* positive candidates by score, the first limit of them for a limit > 0;
\* a scorer list never mixes positive and non-positive scores
C10_PositiveHitsRanked ==
    (searched.called /\ searched.scanned) =>
        /\ PositiveCandidates # {} =>
             BestOf(searched.scorer_hits, PositiveCandidates, searched.args.limit)
        /\ \/ \A i \in DOMAIN searched.scorer_hits :
                 FGt(searched.scorer_hits[i].score, FZero)
           \/ \A i \in DOMAIN searched.scorer_hits :
                 ~FGt(searched.scorer_hits[i].score, FZero)

\* two positive candidates of different score and one that is not positive:
\* the limit kept the better positive one
C10_Witness ==
    /\ searched.called /\ searched.scanned
    /\ Cardinality(PositiveCandidates) = 2
    /\ \E p, q \in PositiveCandidates : FGt(RawScore(p), RawScore(q))
    /\ ListCandidates # PositiveCandidates
    /\ searched.args.limit = 1
    /\ Len(searched.scorer_hits) = 1

(***************************************************************************)
(* Properties of the enhancer inside search                                *)
(***************************************************************************)
\* the seeds of the last search: the papers of the first max_seed hits the
\* scorer handed to the enhancer
Seeds == HitIds(Take(searched.scorer_hits, MaxSeed))

HasPaperTagRow(p) == \E r \in DOMAIN paper_tags : paper_tags[r].paper_id = p

\* p cites a seed or is cited by one
AdjacentToSeed(p) ==
    \E z \in Seeds : <<z, p>> \in citations \/ <<p, z>> \in citations

\* the score of paper p in a hit list (p occurs in it)
ScoreIn(hits, p) == hits[CHOOSE i \in DOMAIN hits : hits[i].paper = p].score

\* C11: while other seeds have tags, a seed without a PaperTag row that is
\* not adjacent to a seed in the citation graph leaves the enhancer with its
\* embedding score
C11_UntaggedSeedKeepsScore ==
    (searched.called /\ searched.enhanced) =>
        \A p \in Seeds :
            (/\ ~HasPaperTagRow(p)
             /\ \E q \in Seeds : HasPaperTagRow(q)
             /\ ~AdjacentToSeed(p))
            => /\ p \in HitIds(searched.hits)
               /\ ScoreIn(searched.hits, p) = ScoreIn(searched.scorer_hits, p)

\* two tagged seeds were boosted beside an untagged seed of positive score
\* that no citation edge touches
C11_Witness ==
    /\ searched.called /\ searched.enhanced
    /\ \E p, q \in Seeds :
         /\ ~HasPaperTagRow(p) /\ ~AdjacentToSeed(p)
         /\ FGt(ScoreIn(searched.scorer_hits, p), FZero)
         /\ HasPaperTagRow(q)
         /\ FGt(ScoreIn(searched.hits, q), ScoreIn(searched.scorer_hits, q))

(***************************************************************************)
(* Properties of the learner seen through the expansion                    *)
(***************************************************************************)
\* the names of the tags linked to group gid that are not tags of keyword k
OtherNamesOf(gid, k) ==
    {tags[t].name : t \in {u \in DOMAIN tags :
                             /\ u \notin InitialTagIds(tags, <<k>>)
                             /\ FindLink(edges, gid, u) # 0}}

\* the last learner run had in its window an event that names keyword k
\* and the existing group gid
RunNamed(k, gid) ==
    \E i \in DOMAIN learn.rows :
        /\ k \in Range(learn.rows[i].query_keywords)
        /\ GroupKeys[gid] \in Range(learn.rows[i].group_keys)

\* C12: after a learner run over a click or accept event that names keyword
\* k and an existing group g, expand_keywords_using_graph([k]) returns the
\* names of the other tags linked to g, up to limit
C12_LearnedEdgesVisible ==
    (learn.runs > 0 /\ expanded.called /\ Len(expanded.keywords) = 1) =>
        \A gid \in GroupIds :
            RunNamed(expanded.keywords[1], gid) =>
                LET names == OtherNamesOf(gid, expanded.keywords[1])
                IN IF Cardinality(names) <= expanded.limit
                   THEN names \subseteq DOMAIN expanded.result
                   ELSE Cardinality(DOMAIN expanded.result) = expanded.limit

\* C15: every search call with non-empty keywords appends, before it
\* returns, one RecallLog row of type "query" that records the keywords and
\* the returned result set, unless the log write itself fails
C15_QueryLogged ==
    [][(searched'.args.keywords # <<>> /\ ~searched'.args.log_fails) =>
          /\ Len(logs') = Len(logs) + 1
          /\ SubSeq(logs', 1, Len(logs)) = logs
          /\ logs'[Len(logs')].event_type = "query"
          /\ logs'[Len(logs')].query_keywords = searched'.args.keywords
          /\ logs'[Len(logs')].extra.results = searched'.hits]_vars

\* the sum of tag_boost * weight over the PaperTag rows of paper p, for the
\* boosts the seeds of the last search give
OwnTagScore(p) ==
    PaperTagScore(paper_tags, TagBoost(TagCounts(paper_tags, edges, Seeds)), p)

\* the papers of a hit list that have PaperTag rows, with their tag scores
PoolTagScore(hits) ==
    [p \in {q \in HitIds(hits) : HasPaperTagRow(q)} |-> OwnTagScore(p)]

\* the scores of a hit list follow the formula, the tag scores being taken
\* over the papers of pool
ScoredByFormula(hits, pool) ==
    LET tag_score  == PoolTagScore(pool)
        cite_score == CitationCandidates(citations, Seeds)
        max_tag    == NormalizerOf(Range(tag_score))
        max_cite   == NormalizerOf({Frac(cite_score[x], 1) : x \in DOMAIN cite_score})
    IN \A i \in DOMAIN hits :
          hits[i].score =
            NewScore(IF hits[i].paper \in HitIds(searched.scorer_hits)
                     THEN ScoreIn(searched.scorer_hits, hits[i].paper) ELSE FZero,
                     TagSignal(tag_score, max_tag, hits[i].paper),
                     CitationSignal(cite_score, max_cite, hits[i].paper),
                     Alpha)

\* C20: every paper of the pool the enabled enhancer returns, original hit
\* or citation-expanded, has final_score = embedding_score + alpha * (0.6 *
\* tag_signal + 0.4 * citation_signal), tag_signal being the sum of
\* tag_boost * weight over its own PaperTag rows divided by the maximum of
\* the pool, citation_signal its adjacency count divided by the maximum of
\* the pool; the list is in non-increasing final_score order
C20_PoolScoredByFormula ==
    (searched.called /\ searched.enhanced /\ searched.tag_recall.enabled) =>
        /\ ScoredByFormula(searched.hits, searched.hits)
        /\ NonIncreasing(searched.hits)

\* C21: the score expand_candidates_using_citation_graph gives a candidate
\* is the number of distinct seeds the candidate is adjacent to (cited by
\* the seed or citing it), and no seed is a candidate
C21_DistinctSeedAdjacency ==
    (searched.called /\ searched.enhanced) =>
        LET scores == CitationCandidates(citations, Seeds)
        IN \A x \in DOMAIN scores :
              /\ x \notin Seeds
              /\ scores[x] = Cardinality({z \in Seeds : <<z, x>> \in citations
                                                       \/ <<x, z>> \in citations})

\* the sum of the edge weights between group gid and the tags in initial
\* (tenths), an edge of weight 0 adding 0
EdgeWeightSum(gid, initial) ==
    LET rel == {e \in DOMAIN edges : edges[e].gid = gid /\ edges[e].tid \in initial}
    IN SumOver([e \in rel |-> edges[e].w], rel)

\* the sum over the groups of kept of group_score * edge_weight * 0.5 for
\* tag tid (thousandths)
UnseenTagScore(tid, kept, initial) ==
    LET rel == {e \in DOMAIN edges : edges[e].tid = tid /\ edges[e].gid \in kept}
    IN SumOver([e \in rel |-> EdgeWeightSum(edges[e].gid, initial) * edges[e].w * 5], rel)

\* C22: expand_keywords_using_graph scores a group by the sum of the edge
\* weights between it and the input tags, keeps the 5 best groups, scores
\* every tag that is not an input tag by the sum over the kept groups of
\* group_score * edge_weight * 0.5 (an edge of weight 0 contributing 0) and
\* returns at most limit entries, the highest-scoring such tags
C22_ExpansionScores ==
    (expanded.called /\ expanded.keywords # <<>>) =>
        LET initial == InitialTagIds(tags, expanded.keywords)
            scored  == {edges[e].gid : e \in {f \in DOMAIN edges : edges[f].tid \in initial}}
            kept    == IF Cardinality(scored) <= 5 THEN scored
                       ELSE CHOOSE K \in SUBSET scored :
                              /\ Cardinality(K) = 5
                              /\ \A g \in K, h \in scored \ K :
                                    EdgeWeightSum(g, initial) >= EdgeWeightSum(h, initial)
            unseen  == {edges[e].tid : e \in {f \in DOMAIN edges : edges[f].gid \in kept}}
                         \ initial
            result  == expanded.result
        IN /\ Cardinality(DOMAIN result) <= expanded.limit
           /\ \A n \in DOMAIN result :
                \E t \in unseen : /\ tags[t].name = n
                                  /\ result[n] = UnseenTagScore(t, kept, initial)
           /\ \A u \in unseen :
                \/ tags[u].name \in DOMAIN result
                \/ /\ Cardinality(DOMAIN result) = expanded.limit
                   /\ \A n \in DOMAIN result : result[n] >= UnseenTagScore(u, kept, initial)

\* a row of the last learner run that names keyword key tag_key and group
\* gid: a click or accept row with query_keywords and group_keys
NamedByRow(gid, tag_key) ==
    \E i \in DOMAIN learn.rows :
        /\ learn.rows[i].event_type \in {"click", "accept"}
        /\ GroupKeys[gid] \in Range(learn.rows[i].group_keys)
        /\ \E k \in Range(learn.rows[i].query_keywords) : NormalizeKey(k) = tag_key

\* C23: the learner changes the tag graph only for click/accept rows with
\* non-empty query_keywords and group_keys that name an existing TagGroup:
\* every Tag it creates and every edge it creates or re-weights is named by
\* such a row; it deletes no Tag and no edge
C23_LearnerFrame ==
    learn.runs > 0 =>
        /\ Len(tags) >= Len(learn.tagsBefore)
        /\ SubSeq(tags, 1, Len(learn.tagsBefore)) = learn.tagsBefore
        /\ Len(edges) >= Len(learn.before)
        /\ \A e \in DOMAIN learn.before :
              /\ edges[e].gid = learn.before[e].gid
              /\ edges[e].tid = learn.before[e].tid
              /\ edges[e].w # learn.before[e].w =>
                    NamedByRow(edges[e].gid, tags[edges[e].tid].key)
        /\ \A e \in (Len(learn.before) + 1)..Len(edges) :
              NamedByRow(edges[e].gid, tags[edges[e].tid].key)
        /\ \A t \in (Len(learn.tagsBefore) + 1)..Len(tags) :
              \E g \in GroupIds : NamedByRow(g, tags[t].key)

\* a run over a window with a query row, a row without keywords, a row
\* without group keys or a row naming a missing group, that changed the
\* graph for another row
C23_Witness ==
    /\ learn.runs > 0
    /\ ~learn.raised
    /\ edges # learn.before
    /\ \E i \in learn.from..Len(logs) :
         \/ logs[i].event_type = "query"
         \/ logs[i].query_keywords = <<>>
         \/ logs[i].group_keys = <<>>
         \/ \E k \in Range(logs[i].group_keys) : FindGroup(k) = 0

\* the number of (group gid, keyword with key tag_key) pairs the rows name
\* in events of the given type
RECURSIVE KeyEvents(_, _, _, _)
KeyEvents(rows, gid, tag_key, event_type) ==
    IF rows = <<>> THEN 0
    ELSE LET r  == Head(rows)
             gs == {i \in DOMAIN r.group_keys : FindGroup(r.group_keys[i]) = gid}
             ks == {i \in DOMAIN r.query_keywords :
                      NormalizeKey(r.query_keywords[i]) = tag_key}
             here == IF r.event_type = event_type
                     THEN Cardinality(gs) * Cardinality(ks) ELSE 0
         IN here + KeyEvents(Tail(rows), gid, tag_key, event_type)

\* the (group_id, tag_id) pair of the key had no link when the last run began
NoLinkBefore(gid, tag_key) ==
    LET tid == FindTag(learn.tagsBefore, tag_key)
    IN tid = 0 \/ FindLink(learn.before, gid, tid) = 0

\* C25: a learner run that processes two or more click/accept events for a
\* (group, keyword) pair without a link commits and leaves exactly one link
\* for the pair, of weight min(1.0 + the sum of the increments, 10.0); after
\* any run there is at most one link per (group_id, tag_id)
C25_RepeatedEventsMakeOneLink ==
    /\ UniqueLinks(edges)
    /\ learn.runs > 0 =>
         \A gid \in GroupIds :
           \A tag_key \in {NormalizeKey(k) : k \in
                             UNION {Range(learn.rows[i].query_keywords) :
                                      i \in DOMAIN learn.rows}} :
             LET n == KeyEvents(learn.rows, gid, tag_key, "click")
                 m == KeyEvents(learn.rows, gid, tag_key, "accept")
                 tid == FindTag(tags, tag_key)
             IN (n + m >= 2 /\ NoLinkBefore(gid, tag_key)) =>
                   /\ ~learn.raised
                   /\ tid # 0
                   /\ Cardinality({e \in DOMAIN edges :
                                     edges[e].gid = gid /\ edges[e].tid = tid}) = 1
                   /\ edges[FindLink(edges, gid, tid)].w = Min(10 + n + 5 * m, WeightCap)

\* C26: every paper search returns was a candidate of the scorer in that
\* call (its embedding is not NULL and its year passes the year filters),
\* also when the enhancer added papers found by the citation expansion
C26_ReturnedWereCandidates ==
    (searched.called /\ searched.scanned) =>
        HitIds(searched.hits) \subseteq
            Range(Candidates(papers, searched.args.year_from, searched.args.year_to))

\* C30: the enhancer drops no hit and duplicates none: every hit it was
\* given is in the list it returns exactly once, and no paper id is in the
\* returned list twice
C30_EnhancerKeepsHits ==
    (searched.called /\ searched.enhanced) =>
        /\ \A i \in DOMAIN searched.scorer_hits :
              Cardinality({j \in DOMAIN searched.hits :
                  searched.hits[j].paper = searched.scorer_hits[i].paper}) = 1
        /\ \A i, j \in DOMAIN searched.hits :
              searched.hits[i].paper = searched.hits[j].paper => i = j

\* the enhancer was given hits, added a paper found by the citation
\* expansion and ranked it above a hit it was given
C30_Witness ==
    /\ searched.called /\ searched.enhanced
    /\ searched.scorer_hits # <<>>
    /\ Len(searched.hits) > Len(searched.scorer_hits)
    /\ searched.hits[1].paper \notin HitIds(searched.scorer_hits)

\* the impact tags paper p is linked to
ImpactTagsOf(p) ==
    {key \in {"impact_seminal", "impact_high", "impact_significant"} :
        p \in ImpactTagged(key)}

\* C29: after impact passes interleaved with changes of the corpus, once a
\* pass has ranked the corpus as it is now, every paper is linked to at most
\* one of the three impact tags, the one of the band of its rank (none for a
\* paper outside the bands or without citations)
C29_OneCurrentImpactTag ==
    (/\ labelled.pass = "impact"
     /\ \E ascending \in BOOLEAN : labelled.ranked = RankedPapers(papers, ascending)) =>
        \A p \in DOMAIN papers :
            /\ Cardinality(ImpactTagsOf(p)) <= 1
            /\ p \notin Range(labelled.ranked) => ImpactTagsOf(p) = {}
            /\ \A k \in DOMAIN labelled.ranked :
                  labelled.ranked[k] = p =>
                    ImpactTagsOf(p) = {ImpactBand(k - 1, Len(labelled.ranked))} \ {None}

C14_LearnerNeverRaises == ~learn.raised

\* C16: analyze_logs_and_update_graph returns the number of edges it updated
\* or created, one per processed (group_key, keyword) pair, and 0 when the
\* window holds no click or accept event
C16_ReturnsUpdateCount ==
    (learn.runs > 0 /\ ~learn.raised) =>
        learn.returned = PyInt(IF learn.rows = <<>> THEN 0 ELSE learn.updates)

(***************************************************************************)
(* Properties of the semantic group matcher                                *)
(***************************************************************************)
\* the input keywords of the last call, stripped, the empty ones dropped
BaseKeywords ==
    SelectSeq([i \in DOMAIN matched.keywords |-> Strip(matched.keywords[i])],
              LAMBDA k : k # <<>>)

\* the text the groups are matched against
QueryText == IF matched.text # <<>> THEN matched.text ELSE Join(BaseKeywords, <<" ">>)

\* the words of a group, stripped, the empty ones dropped
GroupWords(g) ==
    {Strip(w) : w \in {x \in Range(g.words \o g.auto_learned) : Strip(x) # <<>>}}

\* at least one word of the group is a case-insensitive substring of the
\* query text
HasWordIn(g, text) == \E w \in GroupWords(g) : Contains(Lower(text), Lower(w))

\* the positions of s that hold the first occurrence of a word, ignoring
\* case
FirstIgnoringCase(s) ==
    {i \in DOMAIN s : \A j \in 1..(i - 1) : Lower(s[j]) # Lower(s[i])}

\* C17: expand_keywords returns the stripped non-empty input keywords first,
\* in their order, then the word lists of every activated group; no two
\* entries are equal ignoring case; a group is activated exactly when one
\* of its words is a case-insensitive substring of the query text
C17_MatcherExpansion ==
    matched.called =>
        LET r      == matched.result.keywords
            act    == matched.result.activated_groups
            names  == {act[i].name : i \in DOMAIN act}
            keep   == FirstIgnoringCase(BaseKeywords)
            n      == Cardinality(keep)
            nth(i) == CHOOSE k \in keep : Cardinality({m \in keep : m < k}) = i - 1
            words  == UNION {GroupWords(SemanticGroups[g]) :
                               g \in {x \in DOMAIN SemanticGroups :
                                        SemanticGroups[x].name \in names}}
        IN /\ \A g \in DOMAIN SemanticGroups :
                SemanticGroups[g].name \in names <=> HasWordIn(SemanticGroups[g], QueryText)
           /\ \A i \in DOMAIN act : Range(act[i].all_words) = GroupWords(
                   CHOOSE g \in Range(SemanticGroups) : g.name = act[i].name)
           /\ \A i, j \in DOMAIN r : Lower(r[i]) = Lower(r[j]) => i = j
           /\ Len(r) >= n
           /\ \A i \in 1..n : r[i] = BaseKeywords[nth(i)]
           /\ \A i \in (n + 1)..Len(r) : r[i] \in words
           /\ \A w \in words : \E i \in DOMAIN r : Lower(r[i]) = Lower(w)

\* a call whose keywords needed strip(), that activated a group through a
\* word in another case, and whose merge dropped a word
C17_Witness ==
    /\ matched.called
    /\ \E i \in DOMAIN matched.keywords :
         /\ Strip(matched.keywords[i]) # matched.keywords[i]
         /\ Strip(matched.keywords[i]) # <<>>
    /\ \E i \in DOMAIN matched.result.activated_groups :
         LET a == matched.result.activated_groups[i]
         IN /\ ~\E w \in Range(a.all_words) : Contains(QueryText, w)
            /\ \E w \in Range(a.all_words) : w \notin Range(matched.result.keywords)
    /\ Len(matched.result.keywords) > Len(BaseKeywords)

(***************************************************************************)
(* Properties of the crawl job                                             *)
(***************************************************************************)
\* the log entries of a row
Entries(row) == IF row.log.null THEN <<>> ELSE row.log.entries

C19_RetryResets ==
    crawled.op = "retry" =>
        /\ job.status = "pending"
        /\ job.current_page = 0
        /\ job.fetched_count = 0
        /\ job.failed_count = 0
        /\ Len(Entries(job)) = Len(Entries(crawled.before)) + 1
        /\ SubSeq(Entries(job), 1, Len(Entries(crawled.before))) = Entries(crawled.before)
        /\ Entries(job)[Len(Entries(job))].msg = "retried, counters reset to 0"

\* a failed job with counted rounds and log entries is retried
C19_Witness ==
    /\ crawled.op = "retry"
    /\ crawled.before.status = "failed"
    /\ crawled.before.failed_count > 0
    /\ crawled.before.fetched_count > 0
    /\ crawled.before.current_page > 0
    /\ Len(Entries(crawled.before)) >= 2

\* C24: run_crawl_job_once on a completed, failed or paused job fetches
\* nothing, returns (job, 0) and leaves the row as it is; a job leaves
\* completed or failed only through retry_crawl_job, and paused only through
\* resume_crawl_job or retry_crawl_job
C24_TerminalStatesHold ==
    [][/\ (job.status \in {"completed", "failed", "paused"} /\ crawled'.op = "run_once"
           /\ ~step.active) =>
             /\ job' = job
             /\ ~crawled'.raised
             /\ crawled'.new_count = 0
             /\ crawled'.fetch = NoFetch
       /\ (job.status \in {"completed", "failed"} /\ job'.status # job.status) =>
             crawled'.op = "retry"
       /\ (job.status = "paused" /\ job'.status # "paused") =>
             crawled'.op \in {"resume", "retry"}]_vars

\* C28: when pause_crawl_job is applied to a job while a step is between
\* its commit of "running" and the commit of its result, the status is still
\* "paused" after the step has finished
C28_PauseSurvivesStep ==
    [][(step.active /\ job.status = "paused" /\ ~step'.active) =>
          job'.status = "paused"]_vars

\* C27: when learner runs in their own sessions interleave their reads and
\* writes of a link, the committed weight of a link never decreases from
\* one committed state to the next and never exceeds 10.0
C27_CommittedWeightMonotone ==
    [][\A e \in DOMAIN edges :
          /\ e \in DOMAIN edges'
          /\ edges'[e].w >= edges[e].w
          /\ edges'[e].w <= WeightCap]_vars

=============================================================================
